---- MODULE Spec2Model ----
(***************************************************************************)
(* A model of the friendly-time parser (package friendlytime).             *)
(*                                                                         *)
(* Strings are sequences of one-character strings.  int64 values are      *)
(* exact: a sign and a magnitude, the magnitude a sequence of limbs in     *)
(* base 10000 (most significant first, <<>> for 0), so that values such as *)
(* 9999999999 or -62135596800 are represented as they are.  An instant is  *)
(* a day since 1970-01-01, a second of that day and a nanosecond of that   *)
(* second, plus the name of its location, as time.Time is an instant plus  *)
(* a *Location.  A call of ParseTime or ParseTimeRange is one step.        *)
(***************************************************************************)
EXTENDS Integers, Sequences, FiniteSets, TLC

VARIABLES call, input, now, startTime, ret, pc, goroutines, frames

vars == <<call, input, now, startTime, ret, pc, goroutines, frames>>

(***************************************************************************)
(* Characters                                                              *)
(***************************************************************************)
DigitChars == <<"0", "1", "2", "3", "4", "5", "6", "7", "8", "9">>

LowerChars == <<"a", "b", "c", "d", "e", "f", "g", "h", "i", "j", "k", "l", "m",
                "n", "o", "p", "q", "r", "s", "t", "u", "v", "w", "x", "y", "z">>

UpperChars == <<"A", "B", "C", "D", "E", "F", "G", "H", "I", "J", "K", "L", "M",
                "N", "O", "P", "Q", "R", "S", "T", "U", "V", "W", "X", "Y", "Z">>

SeqRange(s) == {s[i] : i \in 1..Len(s)}

isDigit(c) == c \in SeqRange(DigitChars)

DigitVal(c) == (CHOOSE i \in 1..10 : DigitChars[i] = c) - 1

DigitChar(n) == DigitChars[n + 1]

\* isLetter checks if a rune is an ASCII letter.
isLetter(c) == c \in SeqRange(LowerChars) \/ c \in SeqRange(UpperChars)

isSpace(c) == c = " "

LowerChar(c) ==
    IF c \in SeqRange(UpperChars)
    THEN LowerChars[CHOOSE i \in 1..26 : UpperChars[i] = c]
    ELSE c

\* F(v), with v computed first
Let(v, F(_)) == CHOOSE r \in {F(x) : x \in {v}} : TRUE

\* the least element of a non-empty set of integers
Least(S) == CHOOSE i \in S : \A j \in S : i <= j

(***************************************************************************)
(* package strings                                                         *)
(***************************************************************************)
ToLower(s) == [i \in 1..Len(s) |-> LowerChar(s[i])]

Drop(s, n) == SubSeq(s, n + 1, Len(s))

Take(s, n) == SubSeq(s, 1, n)

HasPrefix(s, p) == Len(p) <= Len(s) /\ Take(s, Len(p)) = p

\* strings.Index: the 0-based offset of the first occurrence of sub, or -1.
Index(s, sub) ==
    LET hits == {i \in 0..(Len(s) - Len(sub)) : SubSeq(s, i + 1, i + Len(sub)) = sub}
    IN  IF hits = {} THEN -1 ELSE CHOOSE i \in hits : \A j \in hits : i <= j

Contains(s, sub) == Index(s, sub) >= 0

\* strings.Replace(s, old, new, 1)
ReplaceFirst(s, old, new) ==
    LET i == Index(s, old)
    IN  IF i < 0 THEN s ELSE Take(s, i) \o new \o Drop(s, i + Len(old))

\* strings.ReplaceAll(s, " ", "") and strings.Join(strings.Fields(s), "")
RemoveSpaces(s) == SelectSeq(s, LAMBDA c : ~isSpace(c))

TrimLeft(s) ==
    LET ns == {i \in 1..Len(s) : ~isSpace(s[i])}
    IN  IF ns = {} THEN <<>> ELSE SubSeq(s, Least(ns), Len(s))

TrimRight(s) ==
    LET ns == {i \in 1..Len(s) : ~isSpace(s[i])}
    IN  IF ns = {} THEN <<>> ELSE SubSeq(s, 1, CHOOSE i \in ns : \A j \in ns : j <= i)

TrimSpace(s) == TrimRight(TrimLeft(s))

\* strings.Split(s, "/"): the parts between the separators, empty parts kept.
RECURSIVE Split(_)
Split(s) ==
    LET i == Index(s, <<"/">>)
    IN  IF i < 0 THEN <<s>> ELSE <<Take(s, i)>> \o Split(Drop(s, i + 1))

(***************************************************************************)
(* Exact natural numbers: sequences of limbs in base 10000, the most       *)
(* significant first, <<>> for zero.  (The integers of the model checker   *)
(* are 32 bits wide; int64 values and nanosecond counts are not.)          *)
(***************************************************************************)
Base == 10 ^ 4

\* d without its leading zero limbs
Strip(d) ==
    LET nz == {i \in 1..Len(d) : d[i] # 0}
    IN  IF nz = {} THEN <<>> ELSE SubSeq(d, Least(nz), Len(d))

Front(d) == SubSeq(d, 1, Len(d) - 1)

IntToNat(n) ==
    Strip(<<n \div (Base * Base), (n \div Base) % Base, n % Base>>)

\* for d below 2^31
NatToInt(d) ==
    IF d = <<>> THEN 0
    ELSE IF Len(d) = 1 THEN d[1]
    ELSE IF Len(d) = 2 THEN d[1] * Base + d[2]
    ELSE (d[1] * Base + d[2]) * Base + d[3]

\* -1, 0 or 1 as a < b, a = b, a > b
NatCmp(a, b) ==
    IF Len(a) < Len(b) THEN -1
    ELSE IF Len(a) > Len(b) THEN 1
    ELSE LET df == {i \in 1..Len(a) : a[i] # b[i]}
         IN  IF df = {} THEN 0
             ELSE IF a[Least(df)] < b[Least(df)] THEN -1 ELSE 1

RECURSIVE NatAddC(_, _, _)
NatAddC(a, b, carry) ==
    IF a = <<>> /\ b = <<>> THEN IntToNat(carry)
    ELSE LET da == IF a = <<>> THEN 0 ELSE a[Len(a)]
             db == IF b = <<>> THEN 0 ELSE b[Len(b)]
             x  == da + db + carry
         IN  Append(NatAddC(IF a = <<>> THEN a ELSE Front(a),
                            IF b = <<>> THEN b ELSE Front(b), x \div Base), x % Base)

NatAdd(a, b) == NatAddC(a, b, 0)

\* a - b for a >= b
RECURSIVE NatSubB(_, _, _)
NatSubB(a, b, borrow) ==
    IF a = <<>> THEN <<>>
    ELSE LET db == IF b = <<>> THEN 0 ELSE b[Len(b)]
             x  == a[Len(a)] - db - borrow
         IN  Append(NatSubB(Front(a), IF b = <<>> THEN b ELSE Front(b),
                            IF x < 0 THEN 1 ELSE 0),
                    IF x < 0 THEN x + Base ELSE x)

NatSub(a, b) == Strip(NatSubB(a, b, 0))

\* a * k for a machine number k up to 200000
RECURSIVE NatMulC(_, _, _)
NatMulC(a, k, carry) ==
    IF a = <<>> THEN IntToNat(carry)
    ELSE LET p == a[Len(a)] * k + carry
         IN  Append(NatMulC(Front(a), k, p \div Base), p % Base)

NatMul(a, k) == Strip(NatMulC(a, k, 0))

\* a * 10^n
NatShift(a, n) ==
    IF a = <<>> THEN a ELSE NatMul(a, 10 ^ (n % 4)) \o [i \in 1..(n \div 4) |-> 0]

\* long division of a by a machine number k up to 200000:
\* [q |-> quotient, r |-> remainder]
RECURSIVE NatDivStep(_, _, _, _)
NatDivStep(a, k, q, r) ==
    IF a = <<>> THEN [q |-> Strip(q), r |-> r]
    ELSE LET x == r * Base + a[1]
         IN  NatDivStep(Tail(a), k, Append(q, x \div k), x % k)

NatDivMod(a, k) == NatDivStep(a, k, <<>>, 0)

(***************************************************************************)
(* Exact integers: sign and magnitude                                      *)
(***************************************************************************)
Big(neg, mag) == [neg |-> neg /\ mag # <<>>, mag |-> mag]

BigZero == Big(FALSE, <<>>)

BigOfInt(n) == IF n < 0 THEN Big(TRUE, IntToNat(-n)) ELSE Big(FALSE, IntToNat(n))

BigToInt(x) == IF x.neg THEN -NatToInt(x.mag) ELSE NatToInt(x.mag)

BigNeg(x) == Big(~x.neg, x.mag)

BigAdd(x, y) ==
    IF x.neg = y.neg THEN Big(x.neg, NatAdd(x.mag, y.mag))
    ELSE Let(IF NatCmp(x.mag, y.mag) >= 0 THEN <<x, y>> ELSE <<y, x>>,
             LAMBDA p : Big(p[1].neg, NatSub(p[1].mag, p[2].mag)))

\* -1, 0 or 1 as x < y, x = y, x > y
BigCmp(x, y) ==
    IF x.neg # y.neg THEN (IF x.neg THEN -1 ELSE 1)
    ELSE (IF x.neg THEN -1 ELSE 1) * NatCmp(x.mag, y.mag)

BigLt(x, y) == BigCmp(x, y) < 0

BigLe(x, y) == BigCmp(x, y) <= 0

BigMul(x, k) == Big(x.neg # (k < 0), NatMul(x.mag, IF k < 0 THEN -k ELSE k))

BigShift(x, n) == Big(x.neg, NatShift(x.mag, n))

\* Go's / and % on integers: the quotient q truncated toward zero, the
\* remainder r with the sign of the dividend.
BigQuoRem(x, k) ==
    Let(NatDivMod(x.mag, k),
        LAMBDA dm : [q |-> Big(x.neg, dm.q), r |-> IF x.neg THEN -dm.r ELSE dm.r])

\* q = floor(x / k) and r = x - k * q, for 0 < k <= 100000
BigDivMod(x, k) ==
    Let(NatDivMod(x.mag, k),
        LAMBDA dm : IF x.neg /\ dm.r # 0
                    THEN [q |-> Big(TRUE, NatAdd(dm.q, <<1>>)), r |-> k - dm.r]
                    ELSE [q |-> Big(x.neg, dm.q), r |-> dm.r])

\* the same for k = 10^9, in two steps
BigDivModE9(x) ==
    Let(BigDivMod(x, 100000),
        LAMBDA lo : Let(BigDivMod(lo.q, 10000),
                        LAMBDA hi : [q |-> hi.q, r |-> hi.r * 100000 + lo.r]))

\* 1<<63 = 9223372036854775808
TwoTo63 == <<922, 3372, 368, 5477, 5808>>

\* 2^n for n in 63..77
Pow2(n) == NatMul(TwoTo63, 2 ^ (n - 63))

\* -2^63 <= x < 2^63
InInt64(x) == NatCmp(x.mag, TwoTo63) < (IF x.neg THEN 1 ELSE 0)

(***************************************************************************)
(* package strconv, package fmt                                            *)
(***************************************************************************)
AllDigits(s) == \A i \in 1..Len(s) : isDigit(s[i])

\* the value of the decimal digits s[lo..hi], at most four of them
Chunk(s, lo, hi) ==
    LET d(j) == IF j < lo \/ j < 1 THEN 0 ELSE DigitVal(s[j])
    IN  d(hi) + 10 * d(hi - 1) + 100 * d(hi - 2) + 1000 * d(hi - 3)

\* the value of a string of decimal digits
DigitsToNat(s) ==
    LET n == (Len(s) + 3) \div 4
    IN  Strip([i \in 1..n |-> Chunk(s, Len(s) - 4 * (n - i) - 3, Len(s) - 4 * (n - i))])

\* the number of leading decimal digits of s
LeadingDigits(s) ==
    LET nd == {i \in 1..Len(s) : ~isDigit(s[i])}
    IN  IF nd = {} THEN Len(s) ELSE Least(nd) - 1

\* a numeral without its sign, and whether the sign is "-"
Unsigned(s) == IF s # <<>> /\ s[1] \in {"+", "-"} THEN Tail(s) ELSE s

IsNeg(s) == s # <<>> /\ s[1] = "-"

\* the int64 a sign and a run of digits denote; not ok when there is no digit
\* or the value is outside int64
ReadInt(neg, digits) ==
    Let(Big(neg, DigitsToNat(digits)),
        LAMBDA v : IF digits = <<>> \/ ~InInt64(v) THEN [ok |-> FALSE, v |-> BigZero]
                   ELSE [ok |-> TRUE, v |-> v])

\* strconv.ParseInt(s, 10, 64): an optional sign, then one or more decimal
\* digits and nothing else; a value outside int64 is an error.
ParseInt(s) ==
    IF ~AllDigits(Unsigned(s)) THEN [ok |-> FALSE, v |-> BigZero]
    ELSE ReadInt(IsNeg(s), Unsigned(s))

\* fmt.Sprintf("%d", x)
FormatInt(x) ==
    LET all == [j \in 1..(4 * Len(x.mag)) |->
                   DigitChar((x.mag[((j - 1) \div 4) + 1] \div (10 ^ (3 - ((j - 1) % 4)))) % 10)]
        nz  == {j \in 1..Len(all) : all[j] # "0"}
        ds  == IF nz = {} THEN <<"0">> ELSE SubSeq(all, Least(nz), Len(all))
    IN  IF x.neg THEN <<"-">> \o ds ELSE ds

\* fmt.Sscanf(s, "%d", &amount): leading spaces are skipped, an optional sign
\* and the longest run of digits are read, and the text after them is left
\* unread; n is 1 when a number that fits int64 was read, else 0.
Sscanf(s) ==
    Let(Unsigned(TrimLeft(s)),
        LAMBDA body :
            Let(ReadInt(IsNeg(TrimLeft(s)), Take(body, LeadingDigits(body))),
                LAMBDA r : [n |-> IF r.ok THEN 1 ELSE 0, amount |-> r.v]))

(***************************************************************************)
(* package time: durations                                                 *)
(***************************************************************************)
\* time.ParseDuration's unitMap, each unit as mul * 10^shift nanoseconds
UnitNames == { <<"n", "s">>, <<"u", "s">>, <<"m", "s">>, <<"s">>, <<"m">>, <<"h">> }

UnitMul(u) == IF u = <<"m">> THEN 60 ELSE IF u = <<"h">> THEN 3600 ELSE 1

UnitShift(u) ==
    IF u = <<"n", "s">> THEN 0
    ELSE IF u = <<"u", "s">> THEN 3
    ELSE IF u = <<"m", "s">> THEN 6
    ELSE 9

\* the length of the unit name at the head of s: up to the next digit
UnitLen(s) ==
    LET dg == {i \in 1..Len(s) : isDigit(s[i])}
    IN  IF dg = {} THEN Len(s) ELSE Least(dg) - 1

\* one term of a duration: v units u, in nanoseconds
DurTerm(v, u) == NatShift(NatMul(v, UnitMul(u)), UnitShift(u))

\* the loop of time.ParseDuration over ( digits unit )+, d the sum so far.
\* A number, a term or a sum above 1<<63 is an overflow: the sum is the
\* greatest of the three.
RECURSIVE ParseDurationLoop(_, _)
ParseDurationLoop(s, d) ==
    IF s = <<>> THEN [ok |-> TRUE, d |-> d]
    ELSE Let(LeadingDigits(s),
             LAMBDA k :
                 Let(UnitLen(Drop(s, k)),
                     LAMBDA ul :
                         IF k = 0 \/ ul = 0 \/ SubSeq(s, k + 1, k + ul) \notin UnitNames
                         THEN [ok |-> FALSE, d |-> <<>>]
                         ELSE Let(NatAdd(d, DurTerm(DigitsToNat(Take(s, k)),
                                                    SubSeq(s, k + 1, k + ul))),
                                  LAMBDA sum :
                                      IF NatCmp(sum, TwoTo63) > 0
                                      THEN [ok |-> FALSE, d |-> <<>>]
                                      ELSE ParseDurationLoop(Drop(s, k + ul), sum))))

\* time.ParseDuration(s): [-+]? ( digits unit )+ , or "0"; the result in
\* nanoseconds.  (The alphabet of the model has no "." : no fractions.)
ParseDuration(s) ==
    IF Unsigned(s) = <<"0">> THEN [ok |-> TRUE, d |-> BigZero]
    ELSE IF Unsigned(s) = <<>> THEN [ok |-> FALSE, d |-> BigZero]
    ELSE Let(ParseDurationLoop(Unsigned(s), <<>>),
             LAMBDA r : IF ~r.ok THEN [ok |-> FALSE, d |-> BigZero]
                        ELSE IF IsNeg(s) THEN [ok |-> TRUE, d |-> Big(TRUE, r.d)]
                        ELSE IF NatCmp(r.d, TwoTo63) >= 0 THEN [ok |-> FALSE, d |-> BigZero]
                        ELSE [ok |-> TRUE, d |-> Big(FALSE, r.d)])

(***************************************************************************)
(* package time: instants and the civil calendar                           *)
(***************************************************************************)
\* the fixed-offset locations of the model, seconds east of UTC
ZoneOffset(loc) ==
    CASE loc = "UTC"   -> 0
      [] loc = "Local" -> 3600
      [] loc = "EST"   -> -18000
      [] loc = "PST"   -> -28800

\* days since 1970-01-01 of the civil date y-m-d, m in 1..12, any d
DaysFromEra(era, yoe, mp, d) ==
    era * 146097 + yoe * 365 + yoe \div 4 - yoe \div 100 + (153 * mp + 2) \div 5 + d - 1 - 719468

DaysFromYear(yy, mp, d) == DaysFromEra(yy \div 400, yy % 400, mp, d)

DaysFromCivil(y, m, d) ==
    DaysFromYear(IF m <= 2 THEN y - 1 ELSE y, IF m > 2 THEN m - 3 ELSE m + 9, d)

\* the civil date of a day number
CivilFromMp(era, yoe, doy, mp) ==
    [year  |-> yoe + era * 400 + (IF mp < 10 THEN 0 ELSE 1),
     month |-> IF mp < 10 THEN mp + 3 ELSE mp - 9,
     day   |-> doy - (153 * mp + 2) \div 5 + 1]

CivilFromDoy(era, yoe, doy) == CivilFromMp(era, yoe, doy, (5 * doy + 2) \div 153)

CivilFromYoe(era, doe, yoe) ==
    CivilFromDoy(era, yoe, doe - (365 * yoe + yoe \div 4 - yoe \div 100))

CivilFromDoe(era, doe) ==
    CivilFromYoe(era, doe, (doe - doe \div 1460 + doe \div 36524 - doe \div 146096) \div 365)

CivilFromDays(z) == CivilFromDoe((z + 719468) \div 146097, (z + 719468) % 146097)

isLeap(y) == y % 4 = 0 /\ (y % 100 # 0 \/ y % 400 = 0)

daysIn(m, y) ==
    IF m = 2 THEN (IF isLeap(y) THEN 29 ELSE 28)
    ELSE IF m \in {4, 6, 9, 11} THEN 30 ELSE 31

\* An instant is the day since 1970-01-01 (UTC), the second of that day, the
\* nanosecond of that second, and the location it is presented in.  (Days are
\* machine numbers: the model covers the instants within 2^31 days of 1970.)
Norm(day, sod, nsec, loc) ==
    [day  |-> day + (sod + nsec \div 1000000000) \div 86400,
     sod  |-> (sod + nsec \div 1000000000) % 86400,
     nsec |-> nsec % 1000000000,
     loc  |-> loc]

\* time.Date: months, days and clock fields outside their ranges carry over
Date(year, month, day, hour, min, sec, nsec, loc) ==
    Norm(DaysFromCivil(year + (month - 1) \div 12, ((month - 1) % 12) + 1, 1) + day - 1,
         hour * 3600 + min * 60 + sec - ZoneOffset(loc), nsec, loc)

\* time.Time{}: January 1, year 1, 00:00:00 UTC
ZeroTime == [day |-> -719162, sod |-> 0, nsec |-> 0, loc |-> "UTC"]

IsZero(t) == t.day = ZeroTime.day /\ t.sod = 0 /\ t.nsec = 0

Before(t, u) ==
    \/ t.day < u.day
    \/ t.day = u.day /\ t.sod < u.sod
    \/ t.day = u.day /\ t.sod = u.sod /\ t.nsec < u.nsec

\* t.Equal(u): the same instant, whatever the locations
Equal(t, u) == t.day = u.day /\ t.sod = u.sod /\ t.nsec = u.nsec

\* t.Add(d), d in nanoseconds
Add(t, d) ==
    Let(BigDivModE9(d),
        LAMBDA ns : Let(BigDivMod(ns.q, 86400),
                        LAMBDA s : Norm(t.day + BigToInt(s.q), t.sod + s.r,
                                        t.nsec + ns.r, t.loc)))

\* t.Unix(): seconds since the epoch, rounded down
Unix(t) == BigAdd(BigMul(BigOfInt(t.day), 86400), BigOfInt(t.sod))

Nanosecond(t) == t.nsec

\* time.Unix(sec, nsec), in the local location, for 0 <= nsec < 10^9
timeUnix(sec, nsec) ==
    Let(BigDivMod(sec, 86400),
        LAMBDA s : [day |-> BigToInt(s.q), sod |-> s.r, nsec |-> nsec, loc |-> "Local"])

\* the wall clock reading of t in its location: date, clock and weekday
CivilAt(days, sod, nsec) ==
    Let(CivilFromDays(days),
        LAMBDA c : [year |-> c.year, month |-> c.month, day |-> c.day,
                    hour |-> sod \div 3600, min |-> (sod % 3600) \div 60, sec |-> sod % 60,
                    nsec |-> nsec, weekday |-> (days + 4) % 7])

Civil(t) ==
    CivilAt(t.day + (t.sod + ZoneOffset(t.loc)) \div 86400,
            (t.sod + ZoneOffset(t.loc)) % 86400, t.nsec)

AddDate(t, years, months, days) ==
    Let(Civil(t), LAMBDA c : Date(c.year + years, c.month + months, c.day + days,
                                  c.hour, c.min, c.sec, c.nsec, t.loc))

(***************************************************************************)
(* package time: time.Parse for the layouts the parser uses                *)
(***************************************************************************)
\* getnum: two digits, or one digit when the field is not of fixed width
getnum(value, fixed) ==
    IF value = <<>> \/ ~isDigit(value[1]) THEN [ok |-> FALSE, n |-> 0, rest |-> value]
    ELSE IF Len(value) < 2 \/ ~isDigit(value[2])
         THEN [ok |-> ~fixed, n |-> DigitVal(value[1]), rest |-> Tail(value)]
    ELSE [ok |-> TRUE, n |-> DigitVal(value[1]) * 10 + DigitVal(value[2]),
          rest |-> Drop(value, 2)]

\* atoi of a short field: an optional sign, then digits only
atoi(p) ==
    Let(Unsigned(p),
        LAMBDA body : IF ~AllDigits(body) THEN [ok |-> FALSE, x |-> 0]
                      ELSE [ok |-> TRUE,
                            x  |-> (IF IsNeg(p) THEN -1 ELSE 1) * NatToInt(DigitsToNat(body))])

shortDayNames == << <<"s", "u", "n">>, <<"m", "o", "n">>, <<"t", "u", "e">>,
                    <<"w", "e", "d">>, <<"t", "h", "u">>, <<"f", "r", "i">>,
                    <<"s", "a", "t">> >>

shortMonthNames == << <<"j", "a", "n">>, <<"f", "e", "b">>, <<"m", "a", "r">>,
                      <<"a", "p", "r">>, <<"m", "a", "y">>, <<"j", "u", "n">>,
                      <<"j", "u", "l">>, <<"a", "u", "g">>, <<"s", "e", "p">>,
                      <<"o", "c", "t">>, <<"n", "o", "v">>, <<"d", "e", "c">> >>

\* lookup: the 1-based index of the name that value starts with, letter case
\* ignored, or 0
lookup(tab, value) ==
    Let({i \in 1..Len(tab) : HasPrefix(ToLower(value), tab[i])},
        LAMBDA hits : IF hits = {} THEN 0 ELSE Least(hits))

\* the fraction of a second after "," : up to nine digits are significant
parseNanoseconds(digits) ==
    NatToInt(DigitsToNat([i \in 1..9 |-> IF i <= Len(digits) THEN digits[i] ELSE "0"]))

Fail(acc) == [acc EXCEPT !.ok = FALSE]

\* one element of a layout applied to the head of acc.rest
ParseElem(tok, acc) ==
    CASE tok = "stdYear" ->
           IF Len(acc.rest) < 2 THEN Fail(acc)
           ELSE Let(atoi(Take(acc.rest, 2)),
                    LAMBDA a : IF ~a.ok THEN Fail(acc)
                               ELSE [acc EXCEPT !.year = IF a.x >= 69 THEN a.x + 1900
                                                         ELSE a.x + 2000,
                                                !.rest = Drop(@, 2)])
      [] tok = "stdLongYear" ->
           IF Len(acc.rest) < 4 \/ ~AllDigits(Take(acc.rest, 4)) THEN Fail(acc)
           ELSE [acc EXCEPT !.year = NatToInt(DigitsToNat(Take(acc.rest, 4))),
                            !.rest = Drop(@, 4)]
      [] tok = "stdZeroMonth" ->
           Let(getnum(acc.rest, TRUE),
               LAMBDA g : IF ~g.ok \/ g.n <= 0 \/ 12 < g.n THEN Fail(acc)
                          ELSE [acc EXCEPT !.month = g.n, !.rest = g.rest])
      [] tok = "stdZeroDay" ->
           Let(getnum(acc.rest, TRUE),
               LAMBDA g : IF ~g.ok THEN Fail(acc)
                          ELSE [acc EXCEPT !.day = g.n, !.rest = g.rest])
      [] tok = "stdHour" ->
           Let(getnum(acc.rest, FALSE),
               LAMBDA g : IF ~g.ok \/ 24 <= g.n THEN Fail(acc)
                          ELSE [acc EXCEPT !.hour = g.n, !.rest = g.rest])
      [] tok = "stdZeroMinute" ->
           Let(getnum(acc.rest, TRUE),
               LAMBDA g : IF ~g.ok \/ 60 <= g.n THEN Fail(acc)
                          ELSE [acc EXCEPT !.min = g.n, !.rest = g.rest])
      [] tok = "stdZeroSecond" ->
           Let(getnum(acc.rest, TRUE),
               LAMBDA g :
                   IF ~g.ok \/ 60 <= g.n THEN Fail(acc)
                   ELSE IF Len(g.rest) >= 2 /\ g.rest[1] = "," /\ isDigit(g.rest[2])
                   THEN Let(LeadingDigits(Tail(g.rest)),
                            LAMBDA k : [acc EXCEPT
                                           !.sec = g.n,
                                           !.nsec = parseNanoseconds(SubSeq(g.rest, 2, k + 1)),
                                           !.rest = Drop(g.rest, k + 1)])
                   ELSE [acc EXCEPT !.sec = g.n, !.rest = g.rest])
      [] tok = "stdWeekDay" ->
           IF lookup(shortDayNames, acc.rest) = 0 THEN Fail(acc)
           ELSE [acc EXCEPT !.rest = Drop(@, 3)]
      [] tok = "stdMonth" ->
           Let(lookup(shortMonthNames, acc.rest),
               LAMBDA i : IF i = 0 THEN Fail(acc)
                          ELSE [acc EXCEPT !.month = i, !.rest = Drop(@, 3)])
      [] OTHER ->
           IF acc.rest # <<>> /\ acc.rest[1] = tok THEN [acc EXCEPT !.rest = Tail(@)]
           ELSE Fail(acc)

RECURSIVE ParseElems(_, _)
ParseElems(layout, acc) ==
    IF layout = <<>> \/ ~acc.ok THEN acc
    ELSE ParseElems(Tail(layout), ParseElem(layout[1], acc))

\* time.Parse(layout, value): every element must match, no text may be left,
\* and the day must exist in its month; the result is in UTC.
timeParse(layout, value) ==
    Let(ParseElems(layout, [ok |-> TRUE, rest |-> value, year |-> 0, month |-> 1,
                            day |-> 1, hour |-> 0, min |-> 0, sec |-> 0, nsec |-> 0]),
        LAMBDA acc :
            IF ~acc.ok \/ acc.rest # <<>> \/ acc.day < 1
                  \/ acc.day > daysIn(acc.month, acc.year)
            THEN [ok |-> FALSE, t |-> ZeroTime, hour |-> 0, min |-> 0]
            ELSE [ok |-> TRUE,
                  t |-> Date(acc.year, acc.month, acc.day, acc.hour, acc.min, acc.sec,
                             acc.nsec, "UTC"),
                  hour |-> acc.hour, min |-> acc.min])

\* "15:04"
LayoutClock == <<"stdHour", ":", "stdZeroMinute">>

\* "06-01-02"
LayoutShortDate == <<"stdYear", "-", "stdZeroMonth", "-", "stdZeroDay">>

\* "2006-01-02"
LayoutLongDate == <<"stdLongYear", "-", "stdZeroMonth", "-", "stdZeroDay">>

LayoutTime == <<" ", "stdHour", ":", "stdZeroMinute", ":", "stdZeroSecond">>

\* "06-01-02 15:04:05"
LayoutShortDateTime == LayoutShortDate \o LayoutTime

\* "2006-01-02 15:04:05"
LayoutLongDateTime == LayoutLongDate \o LayoutTime

\* "Mon, 02 Jan 2006 15:04:05"
LayoutRFC == <<"stdWeekDay", ",", " ", "stdZeroDay", " ", "stdMonth", " ", "stdLongYear">>
             \o LayoutTime

(***************************************************************************)
(* package friendlytime: errors                                            *)
(*                                                                         *)
(* An error is the chain of the errors it is or wraps, outermost first;    *)
(* nil is the empty chain.  errors.Is(err, target) holds when target is a  *)
(* member of the chain.                                                    *)
(***************************************************************************)
nil == <<>>

ErrInvalidTimeFormat == "ErrInvalidTimeFormat"

ErrInvalidTimeRange == "ErrInvalidTimeRange"

ErrInvalidStartTime == "ErrInvalidStartTime"

ErrInvalidEndTime == "ErrInvalidEndTime"

ErrInvalidWeekday == "ErrInvalidWeekday"

ErrEndBeforeStart == "ErrEndBeforeStart"

\* the error time.ParseDuration returns: none of the package's errors
ErrDuration == "time: invalid duration"

errorsIs(err, target) == \E i \in 1..Len(err) : err[i] = target

\* a wrapping that formats the cause as text (%s for the second %w): the chain
\* loses the cause
WrapText(outer, cause) == <<"fmt.wrapError", outer>>

\* fmt.Errorf("%w: %w", outer, cause) and fmt.Errorf("%w: %s", outer, text)
Wrap(outer, cause) == <<"fmt.wrapError", outer>> \o cause

(***************************************************************************)
(* package friendlytime: constants and tables                              *)
(***************************************************************************)
hoursPerYear == 8760

hoursPerMonth == 720

hoursPerDay == 24

partsCountInRange == 2

\* 9999999999: timestamps above this are treated as milliseconds
timestampMillisecondBorder == Big(FALSE, <<99, 9999, 9999>>)

millisecondsPerSecond == 1000

nanosecondsPerMillisecond == 1000000

getTimeUnitsToHours ==
    << [patterns |-> << <<"y", "e", "a", "r", "s">>, <<"y", "e", "a", "r">> >>,
        toHours |-> hoursPerYear],
       [patterns |-> << <<"m", "o", "n", "t", "h", "s">>, <<"m", "o", "n", "t", "h">> >>,
        toHours |-> hoursPerMonth],
       [patterns |-> << <<"d", "a", "y", "s">>, <<"d", "a", "y">> >>,
        toHours |-> hoursPerDay] >>

getSimpleTimeUnits ==
    << [patterns |-> << <<"s", "e", "c", "o", "n", "d", "s">>, <<"s", "e", "c", "o", "n", "d">>,
                        <<"s", "e", "c">> >>,
        to |-> <<"s">>],
       [patterns |-> << <<"m", "i", "n", "u", "t", "e", "s">>, <<"m", "i", "n", "u", "t", "e">>,
                        <<"m", "i", "n">> >>,
        to |-> <<"m">>],
       [patterns |-> << <<"h", "o", "u", "r", "s">>, <<"h", "o", "u", "r">> >>,
        to |-> <<"h">>] >>

WeekdayNames ==
    << <<"s", "u", "n", "d", "a", "y">>, <<"m", "o", "n", "d", "a", "y">>,
       <<"t", "u", "e", "s", "d", "a", "y">>, <<"w", "e", "d", "n", "e", "s", "d", "a", "y">>,
       <<"t", "h", "u", "r", "s", "d", "a", "y">>, <<"f", "r", "i", "d", "a", "y">>,
       <<"s", "a", "t", "u", "r", "d", "a", "y">> >>

KwYesterday == <<"y", "e", "s", "t", "e", "r", "d", "a", "y">>

KwLast == <<"l", "a", "s", "t", " ">>

KwLastWeek == KwLast \o <<"w", "e", "e", "k">>

KwLastMonth == KwLast \o <<"m", "o", "n", "t", "h">>

KwLastYear == KwLast \o <<"y", "e", "a", "r">>

KwAgo == <<" ", "a", "g", "o">>

getReservedKeywords == WeekdayNames \o <<KwYesterday, KwLastWeek, KwLastMonth, KwLastYear>>

(***************************************************************************)
(* package friendlytime: the unit normalizer                               *)
(***************************************************************************)
\* a less p when a >= p, else a
SubIfGe(a, p) == IF NatCmp(a, p) >= 0 THEN NatSub(a, p) ELSE a

\* a modulo 2^e, for a < 2^(e+j+1)
RECURSIVE NatModPow2(_, _, _)
NatModPow2(a, e, j) ==
    IF j < 0 THEN a ELSE NatModPow2(SubIfGe(a, Pow2(e + j)), e, j - 1)

\* the signed reading of an unsigned 64-bit value u
Signed64(u) ==
    IF NatCmp(u, TwoTo63) >= 0 THEN Big(TRUE, NatSub(Pow2(64), u)) ELSE Big(FALSE, u)

\* the value of a Go int (64 bits) after a multiplication: reduced into
\* [-2^63, 2^63) modulo 2^64
WrapInt64(x) ==
    IF InInt64(x) THEN x
    ELSE Let(NatModPow2(x.mag, 64, 14),
             LAMBDA m : Signed64(IF x.neg /\ m # <<>> THEN NatSub(Pow2(64), m) ELSE m))

\* the character at 0-based offset i of s is a letter
LetterAt(s, i) == i < Len(s) /\ isLetter(s[i + 1])

\* tryConvertWithPattern is a helper for tryConvertUnit.
tryConvertWithPattern(s, pattern, toHours) ==
    Let(Index(s, pattern),
        LAMBDA idx :
            IF idx <= 0 THEN [s |-> <<>>, ok |-> FALSE]
            ELSE Let(Sscanf(Take(s, idx)),
                     LAMBDA sc :
                         IF sc.n # 1 \/ sc.amount.neg THEN [s |-> <<>>, ok |-> FALSE]
                         ELSE IF LetterAt(s, idx + Len(pattern))
                              THEN [s |-> <<>>, ok |-> FALSE]
                         ELSE [s  |-> FormatInt(WrapInt64(BigMul(sc.amount, toHours)))
                                      \o <<"h">> \o Drop(s, idx + Len(pattern)),
                               ok |-> TRUE]))

\* tryConvertUnit: "N pattern" first, then "Npattern"
tryConvertUnit(s, pattern, toHours) ==
    Let(tryConvertWithPattern(s, <<" ">> \o pattern, toHours),
        LAMBDA a : IF a.ok THEN a ELSE tryConvertWithPattern(s, pattern, toHours))

\* tryConvertSimpleWithPattern is a helper for tryConvertSimpleUnit.
tryConvertSimpleWithPattern(s, pattern, to) ==
    Let(Index(s, pattern),
        LAMBDA idx :
            IF idx <= 0 THEN [s |-> <<>>, ok |-> FALSE]
            ELSE Let(Sscanf(Take(s, idx)),
                     LAMBDA sc :
                         IF sc.n # 1 \/ sc.amount.neg THEN [s |-> <<>>, ok |-> FALSE]
                         ELSE IF LetterAt(s, idx + Len(pattern))
                              THEN [s |-> <<>>, ok |-> FALSE]
                         ELSE [s  |-> FormatInt(sc.amount) \o to
                                      \o Drop(s, idx + Len(pattern)),
                               ok |-> TRUE]))

tryConvertSimpleUnit(s, pattern, to) ==
    Let(tryConvertSimpleWithPattern(s, <<" ">> \o pattern, to),
        LAMBDA a : IF a.ok THEN a ELSE tryConvertSimpleWithPattern(s, pattern, to))

\* tryConvertShortForm converts the short forms "Nd", "Ny" to hours; <<>> when
\* it does not apply.
tryConvertShortForm(s, shortForm, toHours, longForm) ==
    IF ~Contains(s, shortForm) \/ Contains(s, longForm) THEN <<>>
    ELSE Let(Sscanf(s),
             LAMBDA sc :
                 IF sc.n # 1 \/ sc.amount.neg THEN <<>>
                 ELSE Let(FormatInt(sc.amount) \o shortForm,
                          LAMBDA target :
                              IF Index(s, target) >= 0
                                 /\ ~LetterAt(s, Index(s, target) + Len(target))
                              THEN ReplaceFirst(s, target,
                                      FormatInt(WrapInt64(BigMul(sc.amount, toHours)))
                                      \o <<"h">>)
                              ELSE <<>>))

\* the patterns of a table, numbered 8 * i + j in the order of the two loops
PatternCodes(tab) ==
    UNION {{8 * i + j : j \in 1..Len(tab[i].patterns)} : i \in 1..Len(tab)}

\* the result of the first attempt, in loop order, that is ok; "" when none is
FirstOk(attempts) ==
    Let({c \in DOMAIN attempts : attempts[c].ok},
        LAMBDA hits : IF hits = {} THEN <<>> ELSE attempts[Least(hits)].s)

\* the loops of tryConvertToHours: every pattern is tried, the first that
\* converts is returned
FirstHours(s, tab) ==
    FirstOk([c \in PatternCodes(tab) |->
                tryConvertUnit(s, tab[c \div 8].patterns[c % 8], tab[c \div 8].toHours)])

tryConvertToHours(s) == FirstHours(s, getTimeUnitsToHours)

tryConvertShortForms(s) ==
    Let(tryConvertShortForm(s, <<"d">>, hoursPerDay, <<"d", "a", "y">>),
        LAMBDA d : IF d # <<>> THEN d
                   ELSE tryConvertShortForm(s, <<"y">>, hoursPerYear, <<"y", "e", "a", "r">>))

\* the loops of tryConvertSimpleUnits
FirstSimple(s, tab) ==
    FirstOk([c \in PatternCodes(tab) |->
                tryConvertSimpleUnit(s, tab[c \div 8].patterns[c % 8], tab[c \div 8].to)])

tryConvertSimpleUnits(s) == FirstSimple(s, getSimpleTimeUnits)

\* isReservedKeyword without strings.ToLower
isReservedKeywordCased(s) ==
    \E i \in 1..Len(getReservedKeywords) : Contains(s, getReservedKeywords[i])

\* isReservedKeyword checks if the string contains reserved keywords.
isReservedKeyword(s) ==
    \E i \in 1..Len(getReservedKeywords) : Contains(ToLower(s), getReservedKeywords[i])

\* the result of a conversion, or the next conversion when it is ""
OrElse(result, next) == IF result # <<>> THEN result ELSE next

convertCustomUnits(s) ==
    IF isReservedKeyword(s) THEN s
    ELSE OrElse(tryConvertToHours(s),
                OrElse(tryConvertShortForms(s),
                       OrElse(tryConvertSimpleUnits(s), s)))

(***************************************************************************)
(* package friendlytime: the single-time parser                            *)
(***************************************************************************)
\* parseWeekday: Sunday = 0 ... Saturday = 6
parseWeekday(weekdayStr) ==
    LET hits == {i \in 1..Len(WeekdayNames) : WeekdayNames[i] = weekdayStr}
    IN  IF hits = {} THEN [weekday |-> 0, err |-> Wrap(ErrInvalidWeekday, nil)]
        ELSE [weekday |-> (CHOOSE i \in hits : TRUE) - 1, err |-> nil]

\* parseUnixTimestamp with the border itself taken as milliseconds (>= for >)
parseUnixTimestampInclusive(unixTime) ==
    IF BigLe(timestampMillisecondBorder, unixTime)
    THEN Let(BigQuoRem(unixTime, millisecondsPerSecond),
             LAMBDA sn : timeUnix(sn.q, sn.r * nanosecondsPerMillisecond))
    ELSE timeUnix(unixTime, 0)

\* parseUnixTimestamp without the millisecond branch
parseUnixTimestampSeconds(unixTime) == timeUnix(unixTime, 0)

\* parseUnixTimestamp parses a Unix timestamp, seconds or milliseconds.
parseUnixTimestamp(unixTime) ==
    IF BigLt(timestampMillisecondBorder, unixTime)
    THEN Let(BigQuoRem(unixTime, millisecondsPerSecond),
             LAMBDA sn : timeUnix(sn.q, sn.r * nanosecondsPerMillisecond))
    ELSE timeUnix(unixTime, 0)

\* getMidnight without the truncation: the time of day is kept
getMidnightKeep(t) == t

\* getMidnight returns the time at midnight (00:00:00) for the given date.
getMidnight(t) ==
    Let(Civil(t), LAMBDA c : Date(c.year, c.month, c.day, 0, 0, 0, 0, t.loc))

\* a result (time.Time, error) without an error
Ok(t) == [t |-> t, err |-> nil]

\* a result (time.Time{}, err)
Err(err) == [t |-> ZeroTime, err |-> err]

\* strings.TrimPrefix(s, prefix)
TrimPrefix(s, prefix) == IF HasPrefix(s, prefix) THEN Drop(s, Len(prefix)) ELSE s

\* DaysAgo with "< 0" for "<= 0": the weekday of now itself is today
DaysAgoToday(diff) == IF diff < 0 THEN diff + 7 ELSE diff

\* the days back to the last occurrence of a weekday, from now.Weekday() - weekday
DaysAgo(diff) == IF diff <= 0 THEN diff + 7 ELSE diff

parseLastWeekday(durationStr, now_) ==
    Let(parseWeekday(TrimPrefix(durationStr, KwLast)),
        LAMBDA wd :
            IF wd.err # nil THEN Err(wd.err)
            ELSE Ok(getMidnight(AddDate(now_, 0, 0,
                                        -DaysAgo(Civil(now_).weekday - wd.weekday)))))

\* RelativeToAnchor with "+" anchored on now whatever the start is
RelativeToNow(dur, now_, startTime_, isPositive) ==
    IF ~dur.ok THEN Err(<<ErrDuration>>)
    ELSE IF isPositive THEN Ok(Add(now_, dur.d))
    ELSE Ok(Add(now_, BigNeg(dur.d)))

\* the default branch of parseRelativeTime, dur the result of time.ParseDuration
RelativeToAnchor(dur, now_, startTime_, isPositive) ==
    IF ~dur.ok THEN Err(<<ErrDuration>>)
    ELSE IF isPositive
         THEN (IF IsZero(startTime_) THEN Ok(Add(now_, dur.d))
               ELSE Ok(Add(startTime_, dur.d)))
    ELSE Ok(Add(now_, BigNeg(dur.d)))

parseRelativeTime(durationStr0, now_, startTime_, isPositive) ==
    Let(ToLower(TrimSpace(durationStr0)),
        LAMBDA durationStr :
            CASE durationStr = KwYesterday -> Ok(getMidnight(AddDate(now_, 0, 0, -1)))
              [] durationStr = KwLastWeek  -> Ok(getMidnight(AddDate(now_, 0, 0, -7)))
              [] durationStr = KwLastMonth -> Ok(getMidnight(AddDate(now_, 0, -1, 0)))
              [] durationStr = KwLastYear  -> Ok(getMidnight(AddDate(now_, -1, 0, 0)))
              [] OTHER ->
                   IF HasPrefix(durationStr, KwLast) THEN parseLastWeekday(durationStr, now_)
                   ELSE RelativeToAnchor(ParseDuration(RemoveSpaces(durationStr)),
                                         now_, startTime_, isPositive))

\* handleEmptyTime without the branch: the start is returned as it came
handleEmptyTimeStart(startTime_, now_) == startTime_

\* handleEmptyTime returns appropriate time for empty input.
handleEmptyTime(startTime_, now_) == IF IsZero(startTime_) THEN startTime_ ELSE now_

\* tryParseUnixTimestamp attempts to parse as Unix timestamp.
tryParseUnixTimestamp(s) ==
    Let(ParseInt(s),
        LAMBDA p : IF ~p.ok THEN [t |-> ZeroTime, ok |-> FALSE]
                   ELSE [t |-> parseUnixTimestamp(p.v), ok |-> TRUE])

\* parseAgoFormat without the conversion of the units
parseAgoFormatPlain(s, now_, startTime_) ==
    parseRelativeTime(RemoveSpaces(ReplaceFirst(s, KwAgo, <<>>)), now_, startTime_, FALSE)

\* parseAgoFormat adding the duration to the anchor
parseAgoFormatPositive(s, now_, startTime_) ==
    parseRelativeTime(RemoveSpaces(convertCustomUnits(ReplaceFirst(s, KwAgo, <<>>))),
                      now_, startTime_, TRUE)

\* parseAgoFormat handles "N units ago" format.
parseAgoFormat(s, now_, startTime_) ==
    parseRelativeTime(RemoveSpaces(convertCustomUnits(ReplaceFirst(s, KwAgo, <<>>))),
                      now_, startTime_, FALSE)

\* a result (t, true, err) from a result (t, err)
Handled(r) == [t |-> r.t, ok |-> TRUE, err |-> r.err]

\* tryParsePrefixedTime handles + and - prefixed times.
tryParsePrefixedTime(s, now_, startTime_) ==
    IF HasPrefix(s, <<"+">>)
    THEN Handled(parseRelativeTime(convertCustomUnits(Tail(s)), now_, startTime_, TRUE))
    ELSE IF HasPrefix(s, <<"-">>)
    THEN Handled(parseRelativeTime(convertCustomUnits(Tail(s)), now_, startTime_, FALSE))
    ELSE [t |-> ZeroTime, ok |-> FALSE, err |-> nil]

\* tryParseRelativeFormats with the "+" and "-" prefixes tried before " ago"
tryParseRelativeFormatsSigned(s, now_, startTime_) ==
    IF HasPrefix(ToLower(s), KwLast) \/ HasPrefix(ToLower(s), KwYesterday)
    THEN Handled(parseRelativeTime(ToLower(s), now_, startTime_, FALSE))
    ELSE IF HasPrefix(s, <<"+">>) \/ HasPrefix(s, <<"-">>)
    THEN tryParsePrefixedTime(s, now_, startTime_)
    ELSE IF Contains(s, KwAgo) THEN Handled(parseAgoFormat(s, now_, startTime_))
    ELSE tryParsePrefixedTime(s, now_, startTime_)

\* tryParseRelativeFormats attempts to parse relative time formats.
tryParseRelativeFormats(s, now_, startTime_) ==
    IF HasPrefix(ToLower(s), KwLast) \/ HasPrefix(ToLower(s), KwYesterday)
    THEN Handled(parseRelativeTime(ToLower(s), now_, startTime_, FALSE))
    ELSE IF Contains(s, KwAgo) THEN Handled(parseAgoFormat(s, now_, startTime_))
    ELSE tryParsePrefixedTime(s, now_, startTime_)

\* AtClock without the date of now: the clock time as time.Parse returns it,
\* on January 1 of the year 0 in UTC
AtClockParsed(c, p, loc) == Date(0, 1, 1, p.hour, p.min, 0, 0, "UTC")

\* the date of c at the clock time of p
AtClock(c, p, loc) == Date(c.year, c.month, c.day, p.hour, p.min, 0, 0, loc)

\* tryParseTimeOfDay attempts to parse time of day format (HH:MM).
tryParseTimeOfDay(s, now_) ==
    Let(timeParse(LayoutClock, s),
        LAMBDA p : IF ~p.ok THEN [t |-> ZeroTime, ok |-> FALSE]
                   ELSE [t |-> AtClock(Civil(now_), p, now_.loc), ok |-> TRUE])

DateFormats == <<LayoutShortDate, LayoutLongDate, LayoutShortDateTime, LayoutLongDateTime,
                 LayoutRFC>>

\* the loop over the date formats left after its first round: the failure
\* of the first format is returned
FirstParsedOnly(parses) ==
    IF parses[1].ok THEN Ok(parses[1].t) ELSE Err(<<ErrInvalidTimeFormat>>)

\* the loop over the date formats: the first, in order, that parses
FirstParsed(parses) ==
    Let({i \in DOMAIN parses : parses[i].ok},
        LAMBDA hits : IF hits = {} THEN Err(<<ErrInvalidTimeFormat>>)
                      ELSE Ok(parses[Least(hits)].t))

FirstFormat(s) == FirstParsed([i \in 1..Len(DateFormats) |-> timeParse(DateFormats[i], s)])

\* tryParseDateFormats after the conversion of the units
ParseConverted(converted, now_) ==
    Let(ParseDuration(converted),
        LAMBDA dur :
            IF dur.ok THEN Ok(Add(now_, BigNeg(dur.d)))
            ELSE Let(tryParseTimeOfDay(converted, now_),
                     LAMBDA tod : IF tod.ok THEN Ok(tod.t) ELSE FirstFormat(converted)))

\* tryParseDateFormats attempts to parse various date and time formats.
tryParseDateFormats(s, now_) ==
    Let(convertCustomUnits(s), LAMBDA converted : ParseConverted(converted, now_))

\* ParseTime after strings.TrimSpace
ParseTrimmed(s, now_, startTime_) ==
    Let(tryParseUnixTimestamp(s),
        LAMBDA ts :
            IF ts.ok THEN Ok(ts.t)
            ELSE Let(tryParseRelativeFormats(s, now_, startTime_),
                     LAMBDA rel :
                         IF rel.ok \/ rel.err # nil THEN [t |-> rel.t, err |-> rel.err]
                         ELSE tryParseDateFormats(s, now_)))

\* ParseTime parses a human-readable time string to a time.Time value.
ParseTime(timeStr, now_, startTime_) ==
    IF timeStr = <<>> THEN Ok(handleEmptyTime(startTime_, now_))
    ELSE Let(TrimSpace(timeStr), LAMBDA s : ParseTrimmed(s, now_, startTime_))

(***************************************************************************)
(* package friendlytime: the range parser                                  *)
(*                                                                         *)
(* Besides the three results of the Go function the records carry what the *)
(* call did: calls, the ParseTime calls it made in order, and startTime    *)
(* and endTime, the instants its two halves resolved to.                   *)
(***************************************************************************)
RangeResult(start, end, err, calls, st, et) ==
    [start |-> start, end |-> end, err |-> err, calls |-> calls, startTime |-> st,
     endTime |-> et]

\* the record of one ParseTime call
Called(timeStr, startTime_) == [timeStr |-> timeStr, startTime |-> startTime_]

\* parseSingleTime parses a single time value (no range).
parseSingleTime(timeRange, now_) ==
    Let(ParseTime(timeRange, now_, ZeroTime),
        LAMBDA r :
            IF r.err # nil
            THEN RangeResult(BigZero, BigZero, r.err, <<Called(timeRange, ZeroTime)>>,
                             ZeroTime, ZeroTime)
            ELSE RangeResult(Unix(r.t), Unix(r.t), nil, <<Called(timeRange, ZeroTime)>>,
                             r.t, r.t))

\* CheckOrder with equal instants rejected as well: the comparison turned around
CheckOrderStrict(s, e, calls) ==
    IF ~IsZero(e.t) /\ ~IsZero(s.t) /\ ~Before(s.t, e.t)
    THEN RangeResult(BigZero, BigZero, <<ErrEndBeforeStart>>, calls, s.t, e.t)
    ELSE RangeResult(Unix(s.t), Unix(e.t), nil, calls, s.t, e.t)

\* the end of parseTimeRangeParts: the order check and the conversion
CheckOrder(s, e, calls) ==
    IF ~IsZero(e.t) /\ ~IsZero(s.t) /\ Before(e.t, s.t)
    THEN RangeResult(BigZero, BigZero, <<ErrEndBeforeStart>>, calls, s.t, e.t)
    ELSE RangeResult(Unix(s.t), Unix(e.t), nil, calls, s.t, e.t)

\* parseTimeRangeParts after the start has parsed
ParseEnd(parts, s, now_) ==
    Let(ParseTime(parts[2], now_, s.t),
        LAMBDA e :
            IF e.err # nil
            THEN RangeResult(BigZero, BigZero, Wrap(ErrInvalidEndTime, e.err),
                             <<Called(parts[1], ZeroTime), Called(parts[2], s.t)>>,
                             s.t, ZeroTime)
            ELSE CheckOrder(s, e, <<Called(parts[1], ZeroTime), Called(parts[2], s.t)>>))

\* parseTimeRangeParts after the split
ParseParts(parts, now_) ==
    IF Len(parts) # partsCountInRange
    THEN RangeResult(BigZero, BigZero, <<ErrInvalidTimeRange>>, <<>>, ZeroTime, ZeroTime)
    ELSE Let(ParseTime(parts[1], now_, ZeroTime),
             LAMBDA s :
                 IF s.err # nil
                 THEN RangeResult(BigZero, BigZero, Wrap(ErrInvalidStartTime, s.err),
                                  <<Called(parts[1], ZeroTime)>>, ZeroTime, ZeroTime)
                 ELSE ParseEnd(parts, s, now_))

\* parseTimeRangeParts parses a time range with "/" separator.
parseTimeRangeParts(timeRange, now_) ==
    Let(Split(timeRange), LAMBDA parts : ParseParts(parts, now_))

\* ParseTimeRange parses human-readable time range to UNIX timestamps; now_
\* is the reading of time.Now() the call takes.
ParseTimeRange(timeRange, now_) ==
    IF timeRange = <<>> THEN RangeResult(BigZero, BigZero, nil, <<>>, ZeroTime, ZeroTime)
    ELSE IF ~Contains(timeRange, <<"/">>) THEN parseSingleTime(timeRange, now_)
    ELSE parseTimeRangeParts(timeRange, now_)

(***************************************************************************)
(* The inputs of the model                                                 *)
(***************************************************************************)
\* amounts 0..MaxAmount are written in duration literals
MaxAmount == 2

\* now is drawn from the days 0..MaxNowDay after 2025-12-10: every weekday
MaxNowDay == 6

\* time.Now() is read on the days 0..MaxClockDay after 2025-12-10
MaxClockDay == 1

Amounts == 0..MaxAmount

Units == {<<"h">>, <<"m">>, <<"s">>}

\* the duration literal "<n><u>"
Lit(n, u) == FormatInt(BigOfInt(n)) \o u

\* its length in nanoseconds, by arithmetic
LitNs(n, u) ==
    BigShift(BigOfInt(n * (IF u = <<"h">> THEN 3600 ELSE IF u = <<"m">> THEN 60 ELSE 1)), 9)

DurationLits == {Lit(n, u) : n \in Amounts, u \in Units}

PlusLits == {<<"+">> \o d : d \in DurationLits}

MinusLits == {<<"-">> \o d : d \in DurationLits}

\* bare integers: seconds and milliseconds since the epoch
TimestampExprs ==
    { <<"0">>,
      <<"5">>,
      <<"-", "1">>,
      <<"+", "3", "0">>,
      <<"9", "9", "9", "9", "9", "9", "9", "9", "9", "9">>,
      <<"1", "0", "0", "0", "0", "0", "0", "0", "0", "0", "0">>,
      <<"1", "0", "0", "0", "0", "0", "0", "0", "0", "0", "1">>,
      <<"1", "4", "1", "6", "4", "3", "4", "6", "9", "7", "1", "2", "3">>,
      <<"1", "4", "1", "6", "4", "3", "4", "6", "9", "7", "9", "9", "9">>,
      <<"1", "4", "1", "6", "4", "3", "4", "6", "9", "7", "0", "0", "1">>,
      <<"-", "6", "2", "1", "3", "5", "5", "9", "6", "8", "0", "0">>,
      <<"-", "9", "9", "9", "9", "9", "9", "9", "9", "9", "9", "9">>,
      <<"-", "1", "0", "0", "0", "0", "0", "0", "0", "0", "0", "0", "0", "0", "0">> }

\* keywords and weekday references
KeywordExprs ==
    { <<"y", "e", "s", "t", "e", "r", "d", "a", "y">>,
      <<"l", "a", "s", "t", " ", "w", "e", "e", "k">>,
      <<"l", "a", "s", "t", " ", "m", "o", "n", "d", "a", "y">>,
      <<"L", "a", "s", "t", " ", "F", "r", "i", "d", "a", "y">>,
      <<"l", "a", "s", "t", " ", "f", "u", "n", "d", "a", "y">>,
      <<"y", "e", "s", "t", "e", "r", "d", "a", "y", "x">>,
      <<"Y", "e", "s", "t", "e", "r", "d", "a", "y">>,
      <<"L", "A", "S", "T", " ", "W", "E", "E", "K">>,
      <<"l", "a", "s", "t", " ", "m", "o", "n", "t", "h">>,
      <<"L", "a", "s", "t", " ", "M", "o", "n", "t", "h">>,
      <<"l", "a", "s", "t", " ", "y", "e", "a", "r">>,
      <<"L", "A", "S", "T", " ", "Y", "E", "A", "R">>,
      <<"l", "a", "s", "t", " ", " ", "w", "e", "e", "k">>,
      <<"l", "a", "s", "t", " ", "w", "e", "e", "k", "x">>,
      <<"l", "a", "s", "t", " ", "m", "o", "n">>,
      <<"l", "a", "s", "t", " ">> }

\* "last <weekday>" for the seven weekdays, and two spellings in capitals
WeekdayExprs ==
    {KwLast \o WeekdayNames[i] : i \in 1..Len(WeekdayNames)}
        \cup { <<"L", "A", "S", "T", " ", "S", "U", "N", "D", "A", "Y">>,
               <<" ", "L", "a", "s", "t", " ", "W", "e", "d", "n", "e", "s", "d", "a", "y", " ">> }

\* literals of two terms, and the longest duration and the first beyond it
TwoTermLits == {Lit(n, u) \o Lit(k, v) : n \in 1..MaxAmount, k \in 1..MaxAmount, u \in Units, v \in Units}

LongLits == {<<"2", "h", "3", "0", "m">>, Lit(2562047, <<"h">>), Lit(2562048, <<"h">>)}

\* the verbose units, each as a count of hours, minutes or seconds
VerboseUnits ==
    << [name |-> <<"y", "e", "a", "r", "s">>, count |-> 8760, unit |-> <<"h">>],
       [name |-> <<"y", "e", "a", "r">>, count |-> 8760, unit |-> <<"h">>],
       [name |-> <<"m", "o", "n", "t", "h", "s">>, count |-> 720, unit |-> <<"h">>],
       [name |-> <<"m", "o", "n", "t", "h">>, count |-> 720, unit |-> <<"h">>],
       [name |-> <<"d", "a", "y", "s">>, count |-> 24, unit |-> <<"h">>],
       [name |-> <<"d", "a", "y">>, count |-> 24, unit |-> <<"h">>],
       [name |-> <<"h", "o", "u", "r", "s">>, count |-> 1, unit |-> <<"h">>],
       [name |-> <<"h", "o", "u", "r">>, count |-> 1, unit |-> <<"h">>],
       [name |-> <<"m", "i", "n", "u", "t", "e", "s">>, count |-> 1, unit |-> <<"m">>],
       [name |-> <<"m", "i", "n", "u", "t", "e">>, count |-> 1, unit |-> <<"m">>],
       [name |-> <<"m", "i", "n">>, count |-> 1, unit |-> <<"m">>],
       [name |-> <<"s", "e", "c", "o", "n", "d", "s">>, count |-> 1, unit |-> <<"s">>],
       [name |-> <<"s", "e", "c", "o", "n", "d">>, count |-> 1, unit |-> <<"s">>],
       [name |-> <<"s", "e", "c">>, count |-> 1, unit |-> <<"s">>] >>

\* "<n> <unit> ago": single spaces; more spaces between and around the
\* tokens; the unit attached to the number
AgoSpellings(n, name) ==
    { FormatInt(BigOfInt(n)) \o <<" ">> \o name \o KwAgo,
      <<" ">> \o FormatInt(BigOfInt(n)) \o <<" ", " ">> \o name \o <<" ">> \o KwAgo \o <<" ">>,
      FormatInt(BigOfInt(n)) \o name \o KwAgo }

VerboseAgoExprs ==
    UNION {AgoSpellings(n, VerboseUnits[w].name) : n \in Amounts, w \in 1..Len(VerboseUnits)}
        \cup UNION {AgoSpellings(n, VerboseUnits[1].name) : n \in {100, 292, 293}}

\* the "N units ago" form
AgoExprs ==
    { <<"2", " ", "d", "a", "y", "s", " ", "a", "g", "o">>,
      <<"5", " ", " ", "m", "i", "n", "u", "t", "e", "s", " ", " ", "a", "g", "o">>,
      <<"a", "b", "c", " ", "a", "g", "o">> }

\* calendar dates in the accepted formats, each with the date and clock
\* time it names
ValidDates ==
    { [expr |-> <<"2", "0", "2", "5", "-", "1", "2", "-", "1", "0">>,
       date |-> <<2025, 12, 10, 0, 0, 0>>],
      [expr |-> <<"2", "0", "2", "4", "-", "0", "2", "-", "2", "9">>,
       date |-> <<2024, 2, 29, 0, 0, 0>>],
      [expr |-> <<"2", "4", "-", "0", "2", "-", "2", "9">>,
       date |-> <<2024, 2, 29, 0, 0, 0>>],
      [expr |-> <<"2", "0", "2", "5", "-", "1", "1", "-", "3", "0">>,
       date |-> <<2025, 11, 30, 0, 0, 0>>],
      [expr |-> <<"1", "4", "-", "1", "1", "-", "1", "9", " ", "2", "2", ":", "0", "4", ":", "5", "7">>,
       date |-> <<2014, 11, 19, 22, 4, 57>>],
      [expr |-> <<"2", "0", "2", "4", "-", "0", "2", "-", "2", "9", " ", "2", "3", ":", "5", "9", ":", "5", "9">>,
       date |-> <<2024, 2, 29, 23, 59, 59>>],
      [expr |-> <<"S", "a", "t", ",", " ", "2", "9", " ", "F", "e", "b", " ", "2", "0", "2", "4", " ", "0", "8", ":", "0", "0", ":", "0", "0">>,
       date |-> <<2024, 2, 29, 8, 0, 0>>] }

\* expressions in the shape of a date that name no day of the calendar
InvalidDates ==
    { <<"2", "0", "2", "5", "-", "1", "3", "-", "4", "5">>,
      <<"2", "0", "2", "5", "-", "1", "1", "-", "3", "1">>,
      <<"2", "0", "2", "5", "-", "0", "2", "-", "2", "9">>,
      <<"2", "5", "-", "0", "2", "-", "2", "9">>,
      <<"2", "0", "2", "5", "-", "0", "0", "-", "1", "0">>,
      <<"2", "0", "2", "5", "-", "1", "2", "-", "0", "0">>,
      <<"2", "0", "2", "5", "-", "0", "2", "-", "2", "9", " ", "1", "0", ":", "0", "0", ":", "0", "0">>,
      <<"2", "5", "-", "1", "3", "-", "0", "1", " ", "1", "0", ":", "0", "0", ":", "0", "0">>,
      <<"M", "o", "n", ",", " ", "3", "1", " ", "N", "o", "v", " ", "2", "0", "2", "5", " ", "1", "0", ":", "0", "0", ":", "0", "0">>,
      <<"1", "9", "0", "0", "-", "0", "2", "-", "2", "9">> }

\* a number and a word that is no unit: plain, with " ago", with a sign
MalformedUnitExprs ==
    { <<"5", " ", "f", "o", "o", "s">>,
      <<"5", " ", "f", "o", "o", "s", " ", "a", "g", "o">>,
      <<"+", "5", " ", "f", "o", "o", "s">>,
      <<"-", "5", " ", "f", "o", "o", "s">>,
      <<"3", " ", "w", "e", "e", "k", "s">>,
      <<"3", " ", "w", "e", "e", "k", "s", " ", "a", "g", "o">> }

\* expressions that more than one step of the cascade could take, signs
\* before signs, and durations in capitals or with spaces
SignedExprs ==
    { <<"+", "1", "h", " ", "a", "g", "o">>,
      <<"+", "2", " ", "d", "a", "y", "s", " ", "a", "g", "o">>,
      <<"-", "1", "h", " ", "a", "g", "o">>,
      <<"-", "-", "1", "h">>,
      <<"+", "-", "1", "h">>,
      <<"1", "H">>,
      <<"-", "1", "H">>,
      <<"+", "1", "H">>,
      <<"1", "h", " ", "3", "0", "m">>,
      <<"-", "1", "h", " ", "3", "0", "m">>,
      <<"y", "e", "s", "t", "e", "r", "d", "a", "y", " ", "a", "g", "o">> }

\* clock times, each with its hour and minute
ClockCases ==
    { [expr |-> <<"0", "0", ":", "0", "0">>, hour |-> 0, min |-> 0],
      [expr |-> <<"0", "9", ":", "0", "0">>, hour |-> 9, min |-> 0],
      [expr |-> <<"1", "2", ":", "3", "0">>, hour |-> 12, min |-> 30],
      [expr |-> <<"2", "3", ":", "5", "9">>, hour |-> 23, min |-> 59] }

\* the empty expression, clock times, dates and unrecognized text
OtherExprs ==
    { <<>>,
      <<" ">>,
      <<"1", "h", "3", "0", "m">>,
      <<"+", "1", "h", "3", "0", "m">>,
      <<"i", "n", "v", "a", "l", "i", "d">>,
      <<"+", "a", "b", "c">>,
      <<"-", "a", "b", "c">>,
      <<"+">>,
      <<"0", "9", ":", "0", "0">>,
      <<"2", "0", "2", "5", "-", "1", "2", "-", "1", "0">>,
      <<"0", "0", "0", "1", "-", "0", "1", "-", "0", "1">>,
      <<"2", "0", "2", "5", "-", "1", "3", "-", "4", "5">>,
      <<"1", "4", "-", "1", "1", "-", "1", "9", " ", "2", "2", ":", "0", "4", ":", "5", "7">> }

TimeExprs ==
    DurationLits \cup PlusLits \cup MinusLits \cup TimestampExprs \cup KeywordExprs
        \cup WeekdayExprs \cup TwoTermLits \cup LongLits \cup VerboseAgoExprs \cup AgoExprs
        \cup {c.expr : c \in ClockCases} \cup {c.expr : c \in ValidDates} \cup InvalidDates
        \cup MalformedUnitExprs \cup SignedExprs
        \cup OtherExprs

\* the short suffixes, as counts of hours
ShortUnits ==
    << [name |-> <<"d">>, count |-> 24, unit |-> <<"h">>],
       [name |-> <<"y">>, count |-> 8760, unit |-> <<"h">>] >>

\* 2,000,000,000,000,000: times 8760 it is beyond 2^63
Quadrillions == Big(FALSE, <<2000, 0, 0, 0>>)

\* the amounts written before a unit in the strings handed to
\* convertCustomUnits
ConvAmounts == {BigOfInt(n) : n \in Amounts} \cup {Quadrillions}

\* "<N><unit>" and "<N> <unit>" with nothing or " ago" after it, each with
\* N times the hours, minutes or seconds of the unit before the same suffix
UnitCase(n, sp, v, suffix) ==
    [expr |-> FormatInt(n) \o sp \o v.name \o suffix,
     out  |-> FormatInt(BigMul(n, v.count)) \o v.unit \o suffix]

UnitCases ==
    {UnitCase(n, sp, VerboseUnits[w], suffix) :
        n \in ConvAmounts, sp \in {<<>>, <<" ">>}, w \in 1..Len(VerboseUnits),
        suffix \in {<<>>, KwAgo}}
    \cup {UnitCase(n, <<>>, ShortUnits[w], suffix) :
        n \in ConvAmounts, w \in 1..Len(ShortUnits), suffix \in {<<>>, KwAgo}}

\* strings with a reserved keyword in them, most with a unit phrase as well
GuardedExprs ==
    { <<"2", " ", "d", "a", "y", "s", " ", "l", "a", "s", "t", " ", "m", "o", "n", "d", "a", "y">>,
      <<"Y", "e", "s", "t", "e", "r", "d", "a", "y", " ", "5", "d">>,
      <<"3", " ", "h", "o", "u", "r", "s", " ", "S", "u", "n", "D", "a", "y">>,
      <<"1", "0", " ", "m", "i", "n", "u", "t", "e", "s", " ", "b", "e", "f", "o", "r", "e", " ", "y", "e", "s", "t", "e", "r", "d", "a", "y">>,
      <<"L", "A", "S", "T", " ", "Y", "E", "A", "R", " ", "1", "y">>,
      <<"l", "a", "s", "t", " ", "w", "e", "e", "k", " ", "2", " ", "d", "a", "y", "s">>,
      <<"l", "a", "s", "t", " ", "m", "o", "n", "t", "h", " ", "1", " ", "m", "o", "n", "t", "h">>,
      <<"1", " ", "y", "e", "a", "r", " ", "t", "u", "e", "s", "d", "a", "y">>,
      <<"5", "d", " ", "w", "e", "d", "n", "e", "s", "d", "a", "y", "s">>,
      <<"2", " ", "d", "a", "y", "s", " ", "t", "h", "u", "r", "s", "d", "a", "y">>,
      <<"f", "r", "i", "d", "a", "y", " ", "1", "0", " ", "s", "e", "c">>,
      <<"1", "d", "s", "a", "t", "u", "r", "d", "a", "y">>,
      <<"m", "o", "n", "d", "a", "y">>,
      <<"2", " ", "d", "a", "y", "s", " ", "l", "a", "s", "t", " ", " ", "w", "e", "e", "k">> }

\* strings with more than one unit phrase
ManyUnitExprs ==
    { <<"2", " ", "d", "a", "y", "s", " ", "3", " ", "h", "o", "u", "r", "s">>,
      <<"1", " ", "y", "e", "a", "r", " ", "2", " ", "d", "a", "y", "s">>,
      <<"3", " ", "h", "o", "u", "r", "s", " ", "2", " ", "d", "a", "y", "s">>,
      <<"1", "h", " ", "3", "0", " ", "m", "i", "n", "u", "t", "e", "s">>,
      <<"1", " ", "d", "a", "y", " ", "2", " ", "d", "a", "y", "s">>,
      <<"1", "d", " ", "2", "4", "d">>,
      <<"1", "y", " ", "2", "d">>,
      <<"1", "0", " ", "m", "i", "n", " ", "5", " ", "s", "e", "c">> }

\* strings with no unit phrase
NoUnitExprs ==
    { <<>>,
      <<"i", "n", "v", "a", "l", "i", "d">>,
      <<"2", " ", "d", "a", "y", "s", "x">>,
      <<"x", " ", "d", "a", "y", "s">>,
      <<"5", " ", "f", "o", "o", "s">>,
      <<"d", "a", "y", "s">>,
      <<"-", "2", " ", "d", "a", "y", "s">>,
      <<"5", " ", "d">>,
      <<"2", " ", "D", "a", "y", "s">> }

ConvExprs == {c.expr : c \in UnitCases} \cup GuardedExprs \cup ManyUnitExprs \cup NoUnitExprs

\* the halves of the ranges of the model
FixedHalves ==
    { <<>>,
      <<" ">>,
      <<"+", "a", "b", "c">>,
      <<"i", "n", "v", "a", "l", "i", "d">>,
      <<"l", "a", "s", "t", " ", "f", "u", "n", "d", "a", "y">>,
      <<"y", "e", "s", "t", "e", "r", "d", "a", "y">>,
      <<"0", "9", ":", "0", "0">>,
      <<"2", "0", "2", "5", "-", "1", "2", "-", "1", "0">>,
      <<"0", "0", "0", "1", "-", "0", "1", "-", "0", "1">>,
      <<"0">>,
      <<"5">>,
      <<"9", "9", "9", "9", "9", "9", "9", "9", "9", "9">>,
      <<"-", "6", "2", "1", "3", "5", "5", "9", "6", "8", "0", "0">>,
      <<"-", "9", "9", "9", "9", "9", "9", "9", "9", "9", "9", "9">>,
      <<"1", "4", "1", "6", "4", "3", "4", "6", "9", "7", "9", "9", "9">>,
      <<"1", "4", "1", "6", "4", "3", "4", "6", "9", "7", "0", "0", "1">>,
      <<"+", "-", "1", "h">> }

RangeHalves ==
    FixedHalves \cup {Lit(n, <<"h">>) : n \in Amounts} \cup {<<"+">> \o Lit(n, <<"m">>) : n \in Amounts}
        \cup {<<"-">> \o Lit(n, <<"h">>) : n \in 1..MaxAmount}

\* ranges with two or more separators
ManyParts ==
    { <<"1", "h", "/", "2", "h", "/", "3", "h">>,
      <<"/", "/">>,
      <<"i", "n", "v", "a", "l", "i", "d", "/", "1", "h", "/">>,
      <<"/", "1", "h", "/", "i", "n", "v", "a", "l", "i", "d">> }

RangeExprs ==
    RangeHalves \cup {l \o <<"/">> \o r : l \in RangeHalves, r \in RangeHalves} \cup ManyParts

\* fixedTime(): Wednesday, December 10, 2025, 15:30:45, and the days after,
\* in UTC and in New York; and 22:30:45 in Los Angeles, the next day in UTC
Nows ==
    {Date(2025, 12, 10 + k, 15, 30, 45, 0, loc) : k \in 0..MaxNowDay, loc \in {"UTC", "EST"}}
        \cup {Date(2025, 12, 10 + k, 22, 30, 45, 0, "PST") : k \in 0..MaxNowDay}

\* the readings of time.Now(), in the local location
ClockReadings == {Date(2025, 12, 10 + k, 15, 30, 45, 0, "Local") : k \in 0..MaxClockDay}

\* the startTime arguments: unset, two hours before now, the epoch
StartTimes(n) == {ZeroTime, Add(n, BigNeg(LitNs(2, <<"h">>))), timeUnix(BigZero, 0)}

NoResult == [err |-> nil]

(***************************************************************************)
(* The state machine: one call per behaviour.  Init draws the call and its *)
(* arguments; the action of the call computes what it returns.             *)
(***************************************************************************)
\* the last days of months longer than the month before, and February 29:
\* the readings of the clock on which the keywords of the calendar are tried
MonthEndNows ==
    { Date(2025, 12, 31, 15, 30, 45, 0, "UTC"),
      Date(2025, 3, 31, 15, 30, 45, 0, "EST"),
      Date(2024, 2, 29, 15, 30, 45, 0, "UTC") }

Init ==
    /\ pc = "ready"
    /\ ret = NoResult
    /\ goroutines = <<>>
    /\ frames = <<>>
    /\ \/ /\ call = "ParseTime"
          /\ input \in TimeExprs
          /\ now \in Nows
          /\ startTime \in StartTimes(now)
       \/ /\ call = "ParseTime"
          /\ input \in KeywordExprs
          /\ now \in MonthEndNows
          /\ startTime \in StartTimes(now)
       \/ /\ call = "ParseTimeRange"
          /\ input \in RangeExprs
          /\ now \in ClockReadings
          /\ startTime = ZeroTime
       \/ /\ call = "convertCustomUnits"
          /\ input \in ConvExprs
          /\ now = ZeroTime
          /\ startTime = ZeroTime

CallParseTime ==
    /\ pc = "ready"
    /\ call = "ParseTime"
    /\ ret' = ParseTime(input, now, startTime)
    /\ pc' = "done"
    /\ UNCHANGED <<call, input, now, startTime, goroutines, frames>>

CallParseTimeRange ==
    /\ pc = "ready"
    /\ call = "ParseTimeRange"
    /\ ret' = ParseTimeRange(input, now)
    /\ pc' = "done"
    /\ UNCHANGED <<call, input, now, startTime, goroutines, frames>>

CallConvertCustomUnits ==
    /\ pc = "ready"
    /\ call = "convertCustomUnits"
    /\ ret' = [s |-> convertCustomUnits(input), err |-> nil]
    /\ pc' = "done"
    /\ UNCHANGED <<call, input, now, startTime, goroutines, frames>>

Next == CallParseTime \/ CallParseTimeRange \/ CallConvertCustomUnits

Spec == Init /\ [][Next]_vars

DoneTime == pc = "done" /\ call = "ParseTime"

DoneRange == pc = "done" /\ call = "ParseTimeRange"

DoneConvert == pc = "done" /\ call = "convertCustomUnits"

(***************************************************************************)
(* Concurrent calls of ParseTime (TestParseTime_Concurrent): every         *)
(* goroutine calls ParseTime once, and the calls run interleaved, a step   *)
(* at a time.  The package has no variable that a call writes: a call      *)
(* works on its parameters and locals, in its own frame, and the tables it *)
(* looks up are built anew by every call of getTimeUnitsToHours,           *)
(* getSimpleTimeUnits and getReservedKeywords.                             *)
(***************************************************************************)
\* the goroutines are 1..MaxGoroutines
MaxGoroutines == 2

Goroutines == 1..MaxGoroutines

\* the arguments the goroutines call ParseTime with
ConcurrentArgs ==
    { [timeStr |-> <<"1", "h">>, now |-> Date(2025, 12, 10, 15, 30, 45, 0, "UTC"),
       startTime |-> ZeroTime],
      [timeStr |-> <<>>, now |-> Date(2025, 12, 11, 15, 30, 45, 0, "EST"),
       startTime |-> timeUnix(BigZero, 0)],
      [timeStr |-> <<"5">>, now |-> Date(2025, 12, 10, 15, 30, 45, 0, "UTC"),
       startTime |-> ZeroTime],
      [timeStr |-> <<"2", " ", "d", "a", "y", "s", " ", "a", "g", "o">>,
       now |-> Date(2025, 12, 10, 22, 30, 45, 0, "PST"), startTime |-> ZeroTime],
      [timeStr |-> <<"L", "a", "s", "t", " ", "F", "r", "i", "d", "a", "y">>,
       now |-> Date(2025, 12, 12, 15, 30, 45, 0, "EST"), startTime |-> ZeroTime],
      [timeStr |-> <<"i", "n", "v", "a", "l", "i", "d">>,
       now |-> Date(2025, 12, 10, 15, 30, 45, 0, "UTC"), startTime |-> ZeroTime] }

\* the frame of the call a goroutine makes: its own
FrameShared(g) == 1

Frame(g) == g

\* the frame of a call that has not been made
NoFrame == [pc |-> "none"]

\* a frame of ParseTime at the program point at
At_(f, at) == [f EXCEPT !.pc = at]

\* a frame of ParseTime about to return (t, err)
Returning(f, t, err) == [f EXCEPT !.pc = "return", !.t = t, !.err = err]

InitConcurrent ==
    /\ call = "concurrent"
    /\ input = <<>>
    /\ now = ZeroTime
    /\ startTime = ZeroTime
    /\ ret = NoResult
    /\ pc = "ready"
    /\ goroutines \in [Goroutines -> {[pc |-> "go", args |-> a, result |-> NoResult] :
                                         a \in ConcurrentArgs}]
    /\ frames = [g \in Goroutines |-> NoFrame]

\* the rest of the state of a step of goroutine g in its frame
InFrame(g, at) ==
    /\ goroutines[g].pc = "called"
    /\ frames[Frame(g)].pc = at
    /\ UNCHANGED <<call, input, now, startTime, ret, pc, goroutines>>

\* go func() { ... ParseTime("1h", now, time.Time{}) ... }()
GoParseTime(g) ==
    /\ goroutines[g].pc = "go"
    /\ goroutines' = [goroutines EXCEPT ![g].pc = "called"]
    /\ frames' = [frames EXCEPT ![Frame(g)] =
                      [pc |-> "entered", timeStr |-> goroutines[g].args.timeStr,
                       now |-> goroutines[g].args.now,
                       startTime |-> goroutines[g].args.startTime,
                       converted |-> <<>>, t |-> ZeroTime, err |-> nil]]
    /\ UNCHANGED <<call, input, now, startTime, ret, pc>>

\* if timeStr == "" { return handleEmptyTime(startTime, now), nil };
\* timeStr = strings.TrimSpace(timeStr)
StepEmpty(g) ==
    /\ InFrame(g, "entered")
    /\ frames' = [frames EXCEPT ![Frame(g)] =
                      Let(@, LAMBDA f :
                          IF f.timeStr = <<>>
                          THEN Returning(f, handleEmptyTime(f.startTime, f.now), nil)
                          ELSE [pc |-> "timestamp", timeStr |-> TrimSpace(f.timeStr),
                                now |-> f.now, startTime |-> f.startTime,
                                converted |-> f.converted, t |-> f.t, err |-> f.err])]

\* if t, ok := tryParseUnixTimestamp(timeStr); ok { return t, nil }
StepTimestamp(g) ==
    /\ InFrame(g, "timestamp")
    /\ frames' = [frames EXCEPT ![Frame(g)] =
                      Let(@, LAMBDA f :
                          Let(tryParseUnixTimestamp(f.timeStr),
                              LAMBDA ts : IF ts.ok THEN Returning(f, ts.t, nil)
                                          ELSE At_(f, "relative")))]

\* if t, ok, err := tryParseRelativeFormats(timeStr, now, startTime);
\* ok || err != nil { return t, err }
StepRelative(g) ==
    /\ InFrame(g, "relative")
    /\ frames' = [frames EXCEPT ![Frame(g)] =
                      Let(@, LAMBDA f :
                          Let(tryParseRelativeFormats(f.timeStr, f.now, f.startTime),
                              LAMBDA rel : IF rel.ok \/ rel.err # nil
                                           THEN Returning(f, rel.t, rel.err)
                                           ELSE At_(f, "dates")))]

\* tryParseDateFormats: converted := convertCustomUnits(timeStr)
StepConvert(g) ==
    /\ InFrame(g, "dates")
    /\ frames' = [frames EXCEPT ![Frame(g)] =
                      Let(@, LAMBDA f :
                          [pc |-> "formats", timeStr |-> f.timeStr, now |-> f.now,
                           startTime |-> f.startTime,
                           converted |-> convertCustomUnits(f.timeStr),
                           t |-> f.t, err |-> f.err])]

\* tryParseDateFormats: the duration, the time of day, the date formats
StepFormats(g) ==
    /\ InFrame(g, "formats")
    /\ frames' = [frames EXCEPT ![Frame(g)] =
                      Let(@, LAMBDA f :
                          Let(ParseConverted(f.converted, f.now),
                              LAMBDA r : Returning(f, r.t, r.err)))]

\* _, err := ParseTime(...): the goroutine takes what the call returns
ReturnParseTime(g) ==
    /\ goroutines[g].pc = "called"
    /\ frames[Frame(g)].pc = "return"
    /\ goroutines' = [goroutines EXCEPT
                          ![g].pc = "done",
                          ![g].result = [t |-> frames[Frame(g)].t,
                                         err |-> frames[Frame(g)].err]]
    /\ frames' = [frames EXCEPT ![Frame(g)] = NoFrame]
    /\ UNCHANGED <<call, input, now, startTime, ret, pc>>

NextConcurrent ==
    \E g \in Goroutines :
        \/ GoParseTime(g)
        \/ StepEmpty(g)
        \/ StepTimestamp(g)
        \/ StepRelative(g)
        \/ StepConvert(g)
        \/ StepFormats(g)
        \/ ReturnParseTime(g)

SpecConcurrent == InitConcurrent /\ [][NextConcurrent]_vars

(***************************************************************************)
(* Properties                                                              *)
(***************************************************************************)
\* the halves of a range with exactly one "/"
OneSlash == Len(Split(input)) = 2

Left == Split(input)[1]

Right == Split(input)[2]

\* what the halves resolve to when each is parsed by ParseTime on its own:
\* the left with no start, the right with the left's instant as its start
ParsedLeft == ParseTime(Left, now, ZeroTime)

ParsedRight == ParseTime(Right, now, ParsedLeft.t)

\* the length of the literal "<n><u>" in seconds
LitSecs(n, u) == n * (IF u = <<"h">> THEN 3600 ELSE IF u = <<"m">> THEN 60 ELSE 1)

\* the instant d whole seconds after t, as (epoch seconds, nanosecond)
After(t, d) == <<BigAdd(Unix(t), BigOfInt(d)), Nanosecond(t)>>

At(t) == <<Unix(t), Nanosecond(t)>>

\* C1: on a range with exactly one "/" whose halves both parse,
\* ParseTimeRange fails with EndBeforeStart exactly when both resolved
\* instants are non-zero and the end is strictly before the start, and
\* succeeds otherwise (equal instants, or a zero instant on either side);
\* every success with two non-zero instants has end >= start.
C1_EndBeforeStart ==
    /\ (DoneRange /\ OneSlash /\ ParsedLeft.err = nil /\ ParsedRight.err = nil) =>
          /\ (ret.err = <<ErrEndBeforeStart>>) <=>
                (/\ ~IsZero(ParsedLeft.t)
                 /\ ~IsZero(ParsedRight.t)
                 /\ Before(ParsedRight.t, ParsedLeft.t))
          /\ ret.err # <<ErrEndBeforeStart>> => ret.err = nil
          /\ Equal(ParsedLeft.t, ParsedRight.t) => ret.err = nil
    /\ (DoneRange /\ ret.err = nil /\ ~IsZero(ret.startTime) /\ ~IsZero(ret.endTime)) =>
          BigLe(ret.start, ret.end)

\* a range of two non-zero instants, the end before the start, was refused
C1_Witness ==
    /\ DoneRange
    /\ OneSlash
    /\ ret.err = <<ErrEndBeforeStart>>
    /\ ~IsZero(ret.startTime)
    /\ ~IsZero(ret.endTime)
    /\ Before(ret.endTime, ret.startTime)

\* C2: whenever ParseTimeRange returns no error, either both returned
\* values are 0 or the returned end is >= the returned start.
C2_EndNotBeforeStart ==
    (DoneRange /\ ret.err = nil) =>
        \/ ret.start = BigZero /\ ret.end = BigZero
        \/ BigLe(ret.start, ret.end)

\* C3: failures are classified in a fixed order.  Two or more "/" fail with
\* InvalidTimeRange before either half is parsed; else a failing left half
\* fails with InvalidStartTime and the right half is never parsed; else a
\* failing right half fails with InvalidEndTime.  A wrapped error matches
\* every error its cause matches, and on every error both integers are 0.
C3_FailureOrder ==
    DoneRange =>
        /\ Len(Split(input)) > 2 => ret.err = <<ErrInvalidTimeRange>> /\ ret.calls = <<>>
        /\ (OneSlash /\ ParsedLeft.err # nil) =>
              /\ errorsIs(ret.err, ErrInvalidStartTime)
              /\ ~errorsIs(ret.err, ErrInvalidEndTime)
              /\ \A i \in 1..Len(ParsedLeft.err) : errorsIs(ret.err, ParsedLeft.err[i])
              /\ ret.calls = <<Called(Left, ZeroTime)>>
        /\ (OneSlash /\ ParsedLeft.err = nil /\ ParsedRight.err # nil) =>
              /\ errorsIs(ret.err, ErrInvalidEndTime)
              /\ ~errorsIs(ret.err, ErrInvalidStartTime)
              /\ \A i \in 1..Len(ParsedRight.err) : errorsIs(ret.err, ParsedRight.err[i])
        /\ ret.err # nil => ret.start = BigZero /\ ret.end = BigZero

\* a left half naming no weekday failed the range as InvalidStartTime, the
\* cause InvalidWeekday still matched, after one call of ParseTime
C3_Witness ==
    /\ DoneRange
    /\ OneSlash
    /\ errorsIs(ret.err, ErrInvalidStartTime)
    /\ errorsIs(ret.err, ErrInvalidWeekday)
    /\ Len(ret.calls) = 1

\* C4: every error ParseTimeRange returns matches one of InvalidTimeRange,
\* InvalidStartTime, InvalidEndTime or EndBeforeStart.
C4_RangeErrorKinds ==
    (DoneRange /\ ret.err # nil) =>
        \E k \in {ErrInvalidTimeRange, ErrInvalidStartTime, ErrInvalidEndTime,
                  ErrEndBeforeStart} : errorsIs(ret.err, k)

\* C5: every error ParseTime returns matches InvalidTimeFormat or
\* InvalidWeekday.
C5_TimeErrorKinds ==
    (DoneTime /\ ret.err # nil) =>
        errorsIs(ret.err, ErrInvalidTimeFormat) \/ errorsIs(ret.err, ErrInvalidWeekday)

\* C6: for "+D", D a duration literal, ParseTime returns start + D when
\* start is a non-zero instant and now + D when start is the zero instant;
\* for "-D" it returns now - D whatever the start.
C6_SignedDuration ==
    DoneTime =>
        /\ \A n \in Amounts, u \in Units :
              /\ input = <<"+">> \o Lit(n, u) =>
                    /\ ret.err = nil
                    /\ At(ret.t) = After(IF IsZero(startTime) THEN now ELSE startTime,
                                         LitSecs(n, u))
              /\ input = <<"-">> \o Lit(n, u) =>
                    /\ ret.err = nil
                    /\ At(ret.t) = After(now, -LitSecs(n, u))
        /\ input = <<"+", "1", "h", "3", "0", "m">> =>
              /\ ret.err = nil
              /\ At(ret.t) = After(IF IsZero(startTime) THEN now ELSE startTime, 5400)

\* "+2m" was resolved from a start that is neither zero nor now
C6_Witness ==
    /\ DoneTime
    /\ input = <<"+", "2", "m">>
    /\ ~IsZero(startTime)
    /\ ~Equal(startTime, now)
    /\ ret.err = nil
    /\ At(ret.t) = After(startTime, 120)

\* C7: ParseTimeRange on "L/R" composes s = ParseTime(L, now, zero) and
\* e = ParseTime(R, now, s) on one clock reading; hence "A/+D" yields
\* end = start + D exactly, "/+D" yields end = now + D, and "D/D" yields
\* start = end.
C7_Composition ==
    (DoneRange /\ OneSlash /\ ParsedLeft.err = nil /\ ParsedRight.err = nil) =>
        /\ ret.startTime = ParsedLeft.t
        /\ ret.endTime = ParsedRight.t
        /\ \A n \in Amounts, u \in Units :
              /\ (Left # <<>> /\ Right = <<"+">> \o Lit(n, u)) =>
                    /\ ret.err = nil
                    /\ ret.end = BigAdd(ret.start, BigOfInt(LitSecs(n, u)))
              /\ (Left = <<>> /\ Right = <<"+">> \o Lit(n, u)) =>
                    /\ ret.err = nil
                    /\ ret.end = BigAdd(Unix(now), BigOfInt(LitSecs(n, u)))
              /\ (Left = Lit(n, u) /\ Right = Lit(n, u)) =>
                    /\ ret.err = nil
                    /\ ret.start = ret.end

\* C8: ParseTime on the empty expression never fails; it returns the zero
\* instant when start is the zero instant and now when start is non-zero.
\* In a range an empty left half gives the zero instant as the start, and an
\* empty right half after a non-zero left half resolves to now.
C8_EmptyExpression ==
    /\ (DoneTime /\ input = <<>>) =>
          /\ ret.err = nil
          /\ IsZero(startTime) => IsZero(ret.t)
          /\ ~IsZero(startTime) => ret.t = now
    /\ (DoneRange /\ OneSlash /\ Left = <<>>) =>
          /\ IsZero(ret.startTime)
          /\ ret.err = nil => ret.start = Unix(ZeroTime)
    /\ (DoneRange /\ OneSlash /\ Right = <<>> /\ ParsedLeft.err = nil
          /\ ~IsZero(ParsedLeft.t)) =>
          /\ ret.endTime = now
          /\ ret.err = nil => ret.end = Unix(now)

\* the empty expression was resolved to now, the start being another instant
C8_Witness ==
    /\ DoneTime
    /\ input = <<>>
    /\ ~IsZero(startTime)
    /\ ~Equal(startTime, now)
    /\ ret.t = now

\* 9,999,999,999, written out
TenDigitNines == Big(FALSE, <<99, 9999, 9999>>)

\* the instant v milliseconds after the epoch, as (epoch seconds, nanosecond)
AtMillis(v) == <<BigDivMod(v, 1000).q, BigDivMod(v, 1000).r * 1000000>>

C10_BoundaryTen ==
    DoneTime =>
        /\ input = <<"9", "9", "9", "9", "9", "9", "9", "9", "9", "9">> => ret.err = nil /\ Unix(ret.t) = TenDigitNines
        /\ input = <<"1", "0", "0", "0", "0", "0", "0", "0", "0", "0", "0">> => ret.err = nil /\ Unix(ret.t) = BigOfInt(10)

\* C10: "9999999999" resolves to epoch-seconds 9999999999, and
\* "10000000000", taken as 10,000,000,000 ms, to epoch-seconds 10,000,000.
C10_Boundary ==
    DoneTime =>
        /\ input = <<"9", "9", "9", "9", "9", "9", "9", "9", "9", "9">> => ret.err = nil /\ At(ret.t) = <<TenDigitNines, 0>>
        /\ input = <<"1", "0", "0", "0", "0", "0", "0", "0", "0", "0", "0">> => ret.err = nil /\ At(ret.t) = <<BigOfInt(10000000), 0>>

\* "10000000000" was resolved to epoch-seconds 10,000,000
C10_Witness ==
    /\ DoneTime
    /\ input = <<"1", "0", "0", "0", "0", "0", "0", "0", "0", "0", "0">>
    /\ ret.err = nil
    /\ Unix(ret.t) = BigOfInt(10000000)

\* the weekday a "last <weekday>" expression names, Sunday = 0
NamedWeekday ==
    CHOOSE w \in 0..6 : ToLower(TrimSpace(input)) = KwLast \o WeekdayNames[w + 1]

\* now.weekday - W.weekday, plus 7 when that is zero or negative
DaysBack(w) ==
    IF Civil(now).weekday - w <= 0 THEN Civil(now).weekday - w + 7
    ELSE Civil(now).weekday - w

\* midnight, in now's zone, of the calendar day k days before now's
MidnightBefore(k) ==
    Date(Civil(now).year, Civil(now).month, Civil(now).day - k, 0, 0, 0, 0, now.loc)

\* C11: for every weekday of now and every weekday name W, ParseTime on
\* "last W" goes back daysAgo = now.weekday - W.weekday days, plus 7 when
\* the difference is zero or negative, so 1..7 days; the result is midnight
\* of that day in now's zone, falls on weekday W, is strictly before now,
\* and is exactly 7 days back when W is now's own weekday.
C11_LastWeekday ==
    (DoneTime /\ ToLower(TrimSpace(input)) \in {KwLast \o WeekdayNames[i] : i \in 1..7}) =>
        /\ ret.err = nil
        /\ DaysBack(NamedWeekday) \in 1..7
        /\ ret.t = MidnightBefore(DaysBack(NamedWeekday))
        /\ Civil(ret.t).weekday = NamedWeekday
        /\ Before(ret.t, now)
        /\ NamedWeekday = Civil(now).weekday =>
              /\ DaysBack(NamedWeekday) = 7
              /\ Unix(ret.t) = BigAdd(Unix(MidnightBefore(0)), BigOfInt(-7 * 86400))

\* on a Saturday evening in Los Angeles, a Sunday in UTC, "last saturday"
\* was resolved to the midnight, in Los Angeles, of the Saturday before
C11_Witness ==
    /\ DoneTime
    /\ input = <<"l", "a", "s", "t", " ", "s", "a", "t", "u", "r", "d", "a", "y">>
    /\ now = Date(2025, 12, 13, 22, 30, 45, 0, "PST")
    /\ ret.err = nil
    /\ ret.t = Date(2025, 12, 6, 0, 0, 0, 0, "PST")

\* the expression as the parser compares it: trimmed, in lower case
Lowered == ToLower(TrimSpace(input))

\* midnight, in now's zone, of now's calendar date moved back by years,
\* months and days
MidnightBack(years, months, days) ==
    Date(Civil(now).year - years, Civil(now).month - months, Civil(now).day - days,
         0, 0, 0, 0, now.loc)

\* C12: the exact keywords "yesterday", "last week", "last month" and
\* "last year", in any letter case, resolve to midnight in now's zone of now
\* minus 1 day, 7 days, 1 calendar month and 1 calendar year; any other
\* expression beginning with "last " is a weekday reference, and fails with
\* InvalidWeekday when what follows is not one of the seven weekday names.
C12_Keywords ==
    DoneTime =>
        /\ Lowered = KwYesterday => ret.err = nil /\ ret.t = MidnightBack(0, 0, 1)
        /\ Lowered = KwLastWeek => ret.err = nil /\ ret.t = MidnightBack(0, 0, 7)
        /\ Lowered = KwLastMonth => ret.err = nil /\ ret.t = MidnightBack(0, 1, 0)
        /\ Lowered = KwLastYear => ret.err = nil /\ ret.t = MidnightBack(1, 0, 0)
        /\ (/\ HasPrefix(Lowered, KwLast)
            /\ Lowered \notin {KwLastWeek, KwLastMonth, KwLastYear}) =>
              IF \E i \in 1..7 : Drop(Lowered, Len(KwLast)) = WeekdayNames[i]
              THEN ret.err = nil /\ Civil(ret.t).weekday = NamedWeekday
              ELSE /\ errorsIs(ret.err, ErrInvalidWeekday)
                   /\ ~errorsIs(ret.err, ErrInvalidTimeFormat)
                   /\ IsZero(ret.t)

\* "Last Month", in capitals, was resolved to midnight a calendar month back
C12_Witness ==
    /\ DoneTime
    /\ input = <<"L", "a", "s", "t", " ", "M", "o", "n", "t", "h">>
    /\ now = Date(2025, 12, 10, 15, 30, 45, 0, "EST")
    /\ ret.err = nil
    /\ ret.t = Date(2025, 11, 10, 0, 0, 0, 0, "EST")

\* the instant secs seconds before t, as (epoch seconds, nanosecond)
Back(t, secs) == <<BigAdd(Unix(t), BigNeg(secs)), Nanosecond(t)>>

\* the call returned the instant secs seconds before now
IsBack(secs) == ret.err = nil /\ At(ret.t) = Back(now, secs)

\* secs seconds are a time.Duration: fewer than 2^63 nanoseconds
InDuration(secs) == NatCmp(BigShift(secs, 9).mag, TwoTo63) < 0

\* the seconds of n times count units u, u one of h, m, s
Seconds(n, count, u) == BigMul(BigMul(BigOfInt(n), count), LitSecs(1, u))

\* the seconds of n of the verbose unit v
VerboseSeconds(n, v) == Seconds(n, v.count, v.unit)

\* the amounts written before a unit: 0..MaxAmount, and around the longest
\* duration in hours and in years
HourAmounts == Amounts \cup {2562047, 2562048}

YearAmounts == Amounts \cup {100, 292, 293}

\* the plain literals of the model, each with its length in seconds
PlainCases ==
    {[expr |-> Lit(n, u), secs |-> Seconds(n, 1, u)] : n \in HourAmounts, u \in Units}
        \cup {[expr |-> Lit(n, u) \o Lit(k, v), secs |-> BigOfInt(LitSecs(n, u) + LitSecs(k, v))] :
                 n \in 1..MaxAmount, k \in 1..MaxAmount, u \in Units, v \in Units}
        \cup {[expr |-> <<"2", "h", "3", "0", "m">>, secs |-> BigOfInt(9000)]}

\* the "<N> <unit> ago" expressions, each with the seconds of N units
AgoCases ==
    UNION {{[expr |-> e, secs |-> VerboseSeconds(n, VerboseUnits[w])] :
               e \in AgoSpellings(n, VerboseUnits[w].name)} :
           n \in YearAmounts, w \in 1..Len(VerboseUnits)}

HasKeyword(s) ==
    \E k \in {WeekdayNames[i] : i \in 1..7}
              \cup {KwYesterday, KwLastWeek, KwLastMonth, KwLastYear} :
        \E i \in 0..Len(s) : HasPrefix(ToLower(Drop(s, i)), k)

\* C14: keyword guard.  For every string s that contains a reserved keyword
\* as a substring, in any letter case, convertCustomUnits(s) returns s
\* unchanged, even when s has a convertible "<number> <unit>" phrase.
C14_KeywordGuard == (DoneConvert /\ HasKeyword(input)) => ret.s = input

\* "3 hours SunDay" came back as it was, though "3 hours" alone becomes "3h"
C14_Witness ==
    /\ DoneConvert
    /\ input = <<"3", " ", "h", "o", "u", "r", "s", " ", "S", "u", "n", "D", "a", "y">>
    /\ ret.s = input
    /\ convertCustomUnits(<<"3", " ", "h", "o", "u", "r", "s">>) = <<"3", "h">>

\* C15: idempotence of the normalization.  For every string s without a
\* reserved keyword, convertCustomUnits(convertCustomUnits(s)) equals
\* convertCustomUnits(s), also when s has more than one unit phrase.
C15_Idempotent ==
    (DoneConvert /\ ~HasKeyword(input)) => convertCustomUnits(ret.s) = ret.s

\* C16: for a non-negative integer N, an optional single space and one
\* unit word, convertCustomUnits returns N*8760 and "h" for years/year,
\* N*720 "h" for months/month, N*24 "h" for days/day and the suffix "d",
\* N*8760 "h" for the suffix "y", N "s" for seconds/second/sec, N "m" for
\* minutes/minute/min, N "h" for hours/hour; the text after the unit word
\* is kept as a suffix of the output.
C16_UnitTable ==
    DoneConvert => \A c \in UnitCases : input = c.expr => ret.s = c.out

\* C17: ParseTime on a clock time "HH:MM" returns the instant with now's
\* year, month and day, the given hour and minute, seconds and sub-seconds
\* zero, in now's zone (the result's location is now's location), for
\* every now and whatever the start.
C17_ClockTime ==
    DoneTime =>
        \A c \in ClockCases :
            input = c.expr =>
                /\ ret.err = nil
                /\ ret.t.loc = now.loc
                /\ Civil(ret.t).year = Civil(now).year
                /\ Civil(ret.t).month = Civil(now).month
                /\ Civil(ret.t).day = Civil(now).day
                /\ Civil(ret.t).hour = c.hour
                /\ Civil(ret.t).min = c.min
                /\ Civil(ret.t).sec = 0
                /\ Civil(ret.t).nsec = 0

\* late on December 10 in Los Angeles, December 11 in UTC, "23:59" was
\* resolved to 23:59 of December 10 in Los Angeles, the start being set
C17_Witness ==
    /\ DoneTime
    /\ input = <<"2", "3", ":", "5", "9">>
    /\ now = Date(2025, 12, 10, 22, 30, 45, 0, "PST")
    /\ ~IsZero(startTime)
    /\ ret.err = nil
    /\ ret.t = Date(2025, 12, 10, 23, 59, 0, 0, "PST")
    /\ Unix(ret.t) = BigAdd(Unix(now), BigOfInt(5295))

\* C18: an expression in the shape of a date that is no valid calendar date
\* in any of the five formats (month 13, day 45, 31 November, 29 February of
\* a year that is not a leap year) fails with InvalidTimeFormat, after every
\* format has failed to parse it; the failure of one format falls through
\* to the next, and valid dates, 29 February of a leap year among them,
\* succeed with the date they name.
C18_CalendarDates ==
    DoneTime =>
        /\ input \in InvalidDates =>
              /\ ret.err = <<ErrInvalidTimeFormat>>
              /\ IsZero(ret.t)
              /\ \A i \in 1..Len(DateFormats) : ~timeParse(DateFormats[i], input).ok
        /\ \A c \in ValidDates :
              input = c.expr =>
                  /\ ret.err = nil
                  /\ ret.t = Date(c.date[1], c.date[2], c.date[3],
                                  c.date[4], c.date[5], c.date[6], 0, "UTC")

\* "2024-02-29", refused by the format of two-digit years, was resolved by
\* the next format to the leap day
C18_Witness ==
    /\ DoneTime
    /\ input = <<"2", "0", "2", "4", "-", "0", "2", "-", "2", "9">>
    /\ ~timeParse(LayoutShortDate, input).ok
    /\ ret.err = nil
    /\ Unix(ret.t) = BigOfInt(1709164800)

\* C19: a malformed unit phrase, a number followed by a word that is no
\* unit and that the normalization leaves unchanged, always fails in
\* ParseTime with InvalidTimeFormat from the last step of the cascade,
\* whichever path the expression takes: plain, with " ago", or with a "+"
\* or "-" prefix.
C19_MalformedUnit ==
    (DoneTime /\ input \in MalformedUnitExprs /\ convertCustomUnits(input) = input) =>
        ret.err = <<ErrInvalidTimeFormat>>

\* what each call returns when it runs alone
Alone == [a \in ConcurrentArgs |-> ParseTime(a.timeStr, a.now, a.startTime)]

\* C20: ParseTime and convertCustomUnits read and write no state shared
\* between calls.  Whatever the interleaving of the concurrent calls, each
\* call works on the arguments it was given and returns exactly what the
\* same call returns when it runs alone with the same (expr, now, start);
\* the lookup tables are built by each call and no step assigns them.
C20_NoSharedState ==
    \A g \in DOMAIN goroutines :
        /\ goroutines[g].pc = "done" => goroutines[g].result = Alone[goroutines[g].args]
        /\ goroutines[g].pc = "called" =>
              /\ frames[Frame(g)].now = goroutines[g].args.now
              /\ frames[Frame(g)].startTime = goroutines[g].args.startTime
              /\ frames[Frame(g)].pc # "entered" => frames[Frame(g)].timeStr = TrimSpace(goroutines[g].args.timeStr)

\* the call of "2 days ago" has returned what it returns alone, while
\* another call, of another expression at another now, has converted its
\* units and not returned yet
C20_Witness ==
    /\ DOMAIN goroutines = Goroutines
    /\ goroutines[1].pc = "done"
    /\ goroutines[1].args.timeStr = <<"2", " ", "d", "a", "y", "s", " ", "a", "g", "o">>
    /\ goroutines[1].result = Alone[goroutines[1].args]
    /\ goroutines[1].result.err = nil
    /\ goroutines[2].pc = "called"
    /\ goroutines[2].args.timeStr = <<"1", "h">>
    /\ frames[2].pc = "formats"
    /\ frames[2].converted = <<"1", "h">>

\* the unit words of the normalizer
UnitWords ==
    {VerboseUnits[w] : w \in 1..Len(VerboseUnits)} \cup {ShortUnits[w] : w \in 1..Len(ShortUnits)}

\* a run of digits, with or without a "-" before it
IsNumeral(s) == Unsigned(s) # <<>> /\ AllDigits(Unsigned(s)) /\ (s[1] # "+")

\* out is what becomes of in when the span "<number><unit>" at its start, a
\* bare non-negative integer and a unit word with at most one space between
\* them, is replaced by a number and the target unit, the rest kept
SpanReplaced(in, out) ==
    \E i \in 1..Len(in), v \in UnitWords, sp \in {<<>>, <<" ">>} :
        /\ AllDigits(Take(in, i))
        /\ HasPrefix(Drop(in, i), sp \o v.name)
        /\ \E k \in 1..Len(out) :
              /\ IsNumeral(Take(out, k))
              /\ Drop(out, k) = v.unit \o Drop(in, i + Len(sp) + Len(v.name))

\* C21: convertCustomUnits accepts the match of a unit word only when the
\* text before the unit word is a bare non-negative integer; otherwise the
\* match is rejected.  An accepted match replaces exactly the span
\* "<number><unit>" and never drops other text before the number: whenever
\* the result differs from the input, it is the input with that span
\* replaced.
C21_BareInteger == (DoneConvert /\ ret.s # input) => SpanReplaced(input, ret.s)

\* the result (t, err) of the call
Returned == [t |-> ret.t, err |-> ret.err]

\* what the first step of the cascade that takes the trimmed expression s
\* makes of it, the steps in the order: bare integer, "last "/"yesterday"
\* prefix, " ago", "+" prefix, "-" prefix, duration, clock time, dates
FirstStep(s) ==
    IF ParseInt(s).ok THEN Ok(parseUnixTimestamp(ParseInt(s).v))
    ELSE IF HasPrefix(ToLower(s), KwLast) \/ HasPrefix(ToLower(s), KwYesterday)
    THEN parseRelativeTime(ToLower(s), now, startTime, FALSE)
    ELSE IF Contains(s, KwAgo) THEN parseAgoFormat(s, now, startTime)
    ELSE IF HasPrefix(s, <<"+">>)
    THEN parseRelativeTime(convertCustomUnits(Tail(s)), now, startTime, TRUE)
    ELSE IF HasPrefix(s, <<"-">>)
    THEN parseRelativeTime(convertCustomUnits(Tail(s)), now, startTime, FALSE)
    ELSE IF ParseDuration(convertCustomUnits(s)).ok
    THEN Ok(Add(now, BigNeg(ParseDuration(convertCustomUnits(s)).d)))
    ELSE IF timeParse(LayoutClock, convertCustomUnits(s)).ok
    THEN Ok(AtClock(Civil(now), timeParse(LayoutClock, convertCustomUnits(s)), now.loc))
    ELSE FirstFormat(convertCustomUnits(s))

\* C22: the cascade of ParseTime is sensitive to the order, the first
\* success winning: empty, bare integer, "last "/"yesterday" prefix,
\* contains " ago", "+" prefix, "-" prefix, plain duration, clock time,
\* calendar formats.  A signed bare integer as "-1" or "+30" is a Unix
\* timestamp (epoch -1 s, epoch 30 s), never an offset from now or start,
\* and an expression with "+" before it and " ago" in it is now minus the
\* duration.
C22_CascadeOrder ==
    DoneTime =>
        /\ Returned = (IF input = <<>> THEN Ok(handleEmptyTime(startTime, now))
                       ELSE FirstStep(TrimSpace(input)))
        /\ input = <<"-", "1">> => ret.err = nil /\ At(ret.t) = <<BigOfInt(-1), 0>>
        /\ input = <<"+", "3", "0">> => ret.err = nil /\ At(ret.t) = <<BigOfInt(30), 0>>
        /\ input = <<"+", "1", "h", " ", "a", "g", "o">> => IsBack(BigOfInt(3600))
        /\ input = <<"+", "2", " ", "d", "a", "y", "s", " ", "a", "g", "o">> => IsBack(BigOfInt(172800))

\* "+1h ago" was resolved to one hour before now, the start being another
\* instant
C22_Witness ==
    /\ DoneTime
    /\ input = <<"+", "1", "h", " ", "a", "g", "o">>
    /\ ~IsZero(startTime)
    /\ ~Equal(startTime, now)
    /\ ret.err = nil
    /\ At(ret.t) = After(now, -3600)

\* the result (t, err) of ParseTime on the expression of the call with no
\* start
WithoutStart == Let(ParseTime(input, now, ZeroTime), LAMBDA r : [t |-> r.t, err |-> r.err])

\* C23: for a non-empty expression whose trimmed form does not begin with
\* "+", ParseTime returns the same instant or the same error whatever the
\* start: the result with any start is the result with the zero start.
C23_StartIgnored ==
    (DoneTime /\ input # <<>> /\ ~HasPrefix(TrimSpace(input), <<"+">>))
        => Returned = WithoutStart

\* "2 days ago" was resolved with a start that is neither zero nor now
C23_Witness ==
    /\ DoneTime
    /\ input = <<"2", " ", "d", "a", "y", "s", " ", "a", "g", "o">>
    /\ ~IsZero(startTime)
    /\ ~Equal(startTime, now)
    /\ ret.err = nil
    /\ Returned = WithoutStart

\* C24: ParseTime returns the zero instant without error only for the empty
\* expression with a zero start; no non-empty expression resolves to an
\* instant the range parser takes as unset, so a range whose halves are both
\* written out and both parse is never returned with its end before its
\* start.
C24_ZeroOnlyEmpty ==
    /\ (DoneTime /\ ret.err = nil /\ IsZero(ret.t)) => (input = <<>> /\ IsZero(startTime))
    /\ (DoneRange /\ ret.err = nil /\ Len(ret.calls) = 2) =>
          \/ ret.calls[1].timeStr = <<>>
          \/ ret.calls[2].timeStr = <<>>
          \/ ~Before(ret.endTime, ret.startTime)

\* the trimmed expression of the call is not a bare integer
NotInteger == ~ParseInt(TrimSpace(input)).ok

\* C25: the negative paths never resolve to the future.  Whenever ParseTime
\* succeeds on an expression that contains " ago" or begins with "-" (and is
\* not a bare integer) the result is not after now; whenever it succeeds on
\* a "+" offset with a non-zero start the result is not before the start;
\* so a range "L/+X" never fails with EndBeforeStart.
C25_NeverFuture ==
    /\ (/\ DoneTime /\ ret.err = nil /\ NotInteger
         /\ (Contains(TrimSpace(input), KwAgo) \/ HasPrefix(TrimSpace(input), <<"-">>)))
            => ~Before(now, ret.t)
    /\ (/\ DoneTime /\ ret.err = nil /\ NotInteger
         /\ HasPrefix(TrimSpace(input), <<"+">>) /\ ~IsZero(startTime))
            => ~Before(ret.t, startTime)
    /\ (/\ DoneRange /\ Len(ret.calls) = 2
         /\ HasPrefix(TrimSpace(ret.calls[2].timeStr), <<"+">>))
            => ~errorsIs(ret.err, ErrEndBeforeStart)

\* ParseTime on the text d succeeds on the plain-duration path
PlainDuration(d) ==
    /\ ~tryParseUnixTimestamp(TrimSpace(d)).ok
    /\ ~tryParseRelativeFormats(TrimSpace(d), now, startTime).ok
    /\ ParseDuration(convertCustomUnits(TrimSpace(d))).ok

\* C26: the plain-duration path and the "-" path accept the same texts and
\* agree.  For a text D not starting with a sign, ParseTime(D) succeeds as a
\* duration if and only if ParseTime("-" D) succeeds, and then both are the
\* same instant, now - D; so also for "1H" and "1h 30m".
C26_PlainAndMinus ==
    (/\ DoneTime /\ HasPrefix(input, <<"-">>) /\ NotInteger
     /\ ~HasPrefix(Tail(input), <<"-">>) /\ ~HasPrefix(Tail(input), <<"+">>))
        => /\ ret.err = nil <=> PlainDuration(Tail(input))
           /\ ret.err = nil =>
                 Let(ParseTime(Tail(input), now, startTime),
                     LAMBDA p : p.err = nil /\ Equal(p.t, ret.t) /\ ~Before(now, ret.t))

\* the result is midnight, in now's zone, of the given calendar date
IsMidnightOf(year, month, day) ==
    /\ ret.err = nil
    /\ ret.t.loc = now.loc
    /\ Let(Civil(ret.t),
           LAMBDA c : /\ c.year = year /\ c.month = month /\ c.day = day
                      /\ c.hour = 0 /\ c.min = 0 /\ c.sec = 0 /\ c.nsec = 0)

\* C27: for every now, "last month" resolves to midnight of the day of the
\* calendar month before now's month that has now's day of the month, and
\* "last year" to midnight of now's month and day in the year before; also
\* when now is on day 29, 30 or 31 of a month whose predecessor is shorter,
\* and on February 29.
C27_SameDayOfMonth ==
    DoneTime =>
        /\ Lowered = KwLastMonth =>
              Let(Civil(now),
                  LAMBDA c : IF c.month = 1 THEN IsMidnightOf(c.year - 1, 12, c.day)
                             ELSE IsMidnightOf(c.year, c.month - 1, c.day))
        /\ Lowered = KwLastYear =>
              Let(Civil(now), LAMBDA c : IsMidnightOf(c.year - 1, c.month, c.day))

\* the result (t, err) of ParseTime on the expression of the call without
\* the whitespace around it
Trimmed == Let(ParseTime(TrimSpace(input), now, startTime), LAMBDA r : [t |-> r.t, err |-> r.err])

\* the result of ParseTimeRange on the range of the call without the
\* whitespace around its halves
TrimmedRange == ParseTimeRange(TrimSpace(Left) \o <<"/">> \o TrimSpace(Right), now)

\* C28: whitespace around an expression never changes the outcome.
\* ParseTime on e and on e without the whitespace around it return the same
\* instant or both fail; an expression of whitespace only behaves like the
\* empty expression; and a range as " /1h" is accepted like "/1h".
C28_Whitespace ==
    /\ DoneTime =>
          /\ ret.err = nil <=> Trimmed.err = nil
          /\ ret.err = nil => Equal(ret.t, Trimmed.t)
          /\ TrimSpace(input) = <<>> => Returned = Ok(handleEmptyTime(startTime, now))
    /\ (DoneRange /\ OneSlash) =>
          /\ ret.err = nil <=> TrimmedRange.err = nil
          /\ ret.start = TrimmedRange.start
          /\ ret.end = TrimmedRange.end

\* C29: the order check agrees with the values the call reports.
\* ParseTimeRange fails with EndBeforeStart only when the end in seconds
\* since the epoch is less than the start in seconds since the epoch; two
\* timestamps in milliseconds within one second, as
\* "1416434697999/1416434697001", are accepted with start = end.
C29_OrderBySeconds ==
    DoneRange =>
        /\ errorsIs(ret.err, ErrEndBeforeStart) => BigLt(Unix(ret.endTime), Unix(ret.startTime))
        /\ input = <<"1", "4", "1", "6", "4", "3", "4", "6", "9", "7", "9", "9", "9", "/", "1", "4", "1", "6", "4", "3", "4", "6", "9", "7", "0", "0", "1">>
              => ret.err = nil /\ ret.start = ret.end

\* "<N><unit>" and "<N> <unit>" for the units of more than one hour, each
\* with N and N times the hours of the unit
HourCases ==
    {[expr |-> FormatInt(n) \o sp \o v.name \o suffix, amount |-> n,
      product |-> BigMul(n, v.count)] :
        n \in ConvAmounts, sp \in {<<>>, <<" ">>},
        v \in {VerboseUnits[w] : w \in 1..6}, suffix \in {<<>>, KwAgo}}
    \cup {[expr |-> FormatInt(n) \o v.name \o suffix, amount |-> n,
           product |-> BigMul(n, v.count)] :
        n \in ConvAmounts, v \in {ShortUnits[w] : w \in 1..Len(ShortUnits)},
        suffix \in {<<>>, KwAgo}}

\* C30: for every non-negative integer N that the normalizer accepts before
\* years, months or days (or a suffix "d" or "y"), the number of hours it
\* emits is the product of N and the factor (8760, 720 or 24), without
\* wraparound: never negative and never less than N.
C30_NoWraparound ==
    DoneConvert =>
        \A c \in HourCases :
            input = c.expr =>
                /\ Sscanf(ret.s).n = 1
                /\ Sscanf(ret.s).amount = c.product
                /\ ~Sscanf(ret.s).amount.neg
                /\ BigLe(c.amount, Sscanf(ret.s).amount)

====
